---- MODULE Spec2Model ----
(***************************************************************************)
(* Station directory (services/station_service.py) and routing engine      *)
(* (services/routing_service.py) of the metro assistant.                   *)
(*                                                                         *)
(* A string is a sequence of characters; a character is written as a       *)
(* one-token TLA+ string.  CJK characters are written by an ASCII token:   *)
(*   "tai" U+53F0, "tai_var" U+81FA, "zhan" U+7AD9 (the station suffix),   *)
(*   "fw(" U+FF08 and "fw)" U+FF09 (full-width brackets), "nl" newline.    *)
(*                                                                         *)
(* A loop of the program is a recursive operator L(..., n): the loop's     *)
(* variables after n iterations.  TLC evaluates a LET definition when it   *)
(* is first used; a loop that holds another loop tests "prev = prev" (true)*)
(* so that the state before the step is evaluated before the inner loop.   *)
(***************************************************************************)
EXTENDS Integers, Sequences, FiniteSets, TLC

ZHAN == "zhan"
TAI == "tai"
TAI_VAR == "tai_var"
NL == "nl"
OpenBr == {"(", "fw("}
CloseBr == {")", "fw)"}
AsciiUpper == {"A", "B", "C", "D", "E", "T", "M", "X", "Y", "G", "L", "R"}
AsciiLower == {"a", "b", "c", "d", "e", "t", "m", "x", "y", "g", "l", "r"}
AsciiDigit == {"0", "1", "2", "3", "4", "5", "6", "7", "8", "9"}


-----------------------------------------------------------------------------
(* str.lower() on one character *)
LowerChar(c) ==
    CASE c = "A" -> "a" [] c = "B" -> "b" [] c = "C" -> "c" [] c = "D" -> "d"
      [] c = "E" -> "e" [] c = "T" -> "t" [] c = "M" -> "m" [] c = "X" -> "x"
      [] c = "Y" -> "y" [] c = "G" -> "g" [] c = "L" -> "l" [] c = "R" -> "r"
      [] OTHER -> c

Lower(s) == [i \in 1..Len(s) |-> LowerChar(s[i])]

\* least index j >= i with s[j] \in S, 0 when there is none
RECURSIVE FirstIn(_, _, _)
FirstIn(s, i, S) ==
    IF i > Len(s) THEN 0
    ELSE IF s[i] \in S THEN i
    ELSE FirstIn(s, i + 1, S)

\* re.sub(r'[(fw(][^)fw)]*[)fw)]', '', name): every leftmost match is removed,
\* the scan resumes after the match
RECURSIVE StripBrackets(_)
StripBrackets(s) ==
    LET i == FirstIn(s, 1, OpenBr) IN
    IF i = 0 THEN s
    ELSE LET j == FirstIn(s, i + 1, CloseBr) IN
         IF j = 0 THEN s
         ELSE SubSeq(s, 1, i - 1) \o StripBrackets(SubSeq(s, j + 1, Len(s)))

\* re.sub(r'zhan$', '', name): $ matches at the end of the string and just
\* before a newline that ends the string
StripSuffixRegex(s) ==
    LET n == Len(s) IN
    IF n >= 1 /\ s[n] = ZHAN THEN SubSeq(s, 1, n - 1)
    ELSE IF n >= 2 /\ s[n] = NL /\ s[n - 1] = ZHAN
         THEN SubSeq(s, 1, n - 2) \o <<NL>>
    ELSE s

\* StationManager._normalize_name_for_map
normalize_name_for_map(name) ==
    IF name = <<>> THEN <<>>
    ELSE Lower(StripSuffixRegex(StripBrackets(name)))

\* re.search(r'[a-zA-Z0-9]', name)
HasAsciiAlnum(name) ==
    \E i \in 1..Len(name) : name[i] \in AsciiUpper \cup AsciiLower \cup AsciiDigit

Whitespace == {" ", NL}

\* str.strip()
RECURSIVE Strip(_)
Strip(s) ==
    IF s = <<>> THEN s
    ELSE IF s[1] \in Whitespace THEN Strip(Tail(s))
    ELSE IF s[Len(s)] \in Whitespace THEN Strip(SubSeq(s, 1, Len(s) - 1))
    ELSE s

\* re.sub(r"[(fw(].*?[)fw)]", "", s): . matches no newline
RECURSIVE StripBracketsDot(_)
StripBracketsDot(s) ==
    LET i == FirstIn(s, 1, OpenBr) IN
    IF i = 0 THEN s
    ELSE LET j == FirstIn(s, i + 1, CloseBr) IN
         IF j = 0 THEN s
         ELSE IF FirstIn(SubSeq(s, i + 1, j - 1), 1, {NL}) = 0
         THEN SubSeq(s, 1, i - 1) \o StripBracketsDot(SubSeq(s, j + 1, Len(s)))
         ELSE SubSeq(s, 1, i) \o StripBracketsDot(SubSeq(s, i + 1, Len(s)))

\* normalize_station_name_input of utils.station_name_normalizer.normalize_station_name
normalize_station_name_input(name) ==
    LET lowered == Strip(Lower(name))
        unified == [i \in 1..Len(lowered) |->
                       IF lowered[i] = TAI_VAR THEN TAI ELSE lowered[i]]
        bare == Strip(StripBracketsDot(unified))
    IN IF bare # <<>> /\ bare[Len(bare)] = ZHAN
       THEN SubSeq(bare, 1, Len(bare) - 1)
       ELSE bare

-----------------------------------------------------------------------------
(* An insertion-ordered dict is a sequence of <<key, value>> pairs with     *)
(* distinct keys.                                                           *)
DictKeys(d) == {d[i][1] : i \in 1..Len(d)}
DictHas(d, k) == \E i \in 1..Len(d) : d[i][1] = k
DictGet(d, k, default) ==
    IF DictHas(d, k)
    THEN d[CHOOSE i \in 1..Len(d) : d[i][1] = k][2]
    ELSE default
DictSet(d, k, v) ==
    IF DictHas(d, k)
    THEN LET i == CHOOSE j \in 1..Len(d) : d[j][1] = k
         IN SubSeq(d, 1, i - 1) \o << <<k, v>> >> \o SubSeq(d, i + 1, Len(d))
    ELSE Append(d, <<k, v>>)

-----------------------------------------------------------------------------
(* Station IDs in lexicographic (Python str) order, as sorted() orders them *)
IdOrder == <<"BL11", "BL12", "G12", "G14", "R03", "R10", "R11", "R22",
             "X01", "X02", "X03", "Y01", "Y02">>
AllIds == {IdOrder[i] : i \in 1..Len(IdOrder)}
IdRank(id) == CHOOSE i \in 1..Len(IdOrder) : IdOrder[i] = id

\* sorted(list(v)) for a set of station IDs
RECURSIVE SortedIds(_)
SortedIds(S) ==
    IF S = {} THEN <<>>
    ELSE LET m == CHOOSE x \in S : \A y \in S : IdRank(x) <= IdRank(y)
         IN <<m>> \o SortedIds(S \ {m})

SeqToSet(s) == {s[i] : i \in 1..Len(s)}

-----------------------------------------------------------------------------
(* Station names used by the feeds and the alias table *)
N_A == <<"A">>
N_B == <<"B">>
N_C == <<"C">>
N_D == <<"D">>
N_E == <<"E">>
N_TaipeiMain == <<TAI, "bei", "che", ZHAN>>
N_Ximen == <<"xi", "men">>
N_Zhongshan == <<"zhong", "shan">>
N_Taipei101 == <<TAI, "bei", "1", "0", "1", "/", "shi", "mao">>
N_Daqiaotou == <<"da", "qiao", "tou">>
N_Songshan == <<"song", "shan">>
N_Xiangshan == <<"xiang", "shan">>
N_Danshui == <<"dan", "shui">>
N_Xindian == <<"xin", "dian">>
N_Nangang == <<"nan", "gang", "zhan_lan", "guan">>
N_Dingpu == <<"ding", "pu">>
N_Huilong == <<"hui", "long">>
N_Luzhou == <<"lu", "zhou">>
N_Zoo == <<"dong", "wu", "yuan">>
WANG == "wang"

\* StationManager.station_aliases as the dict literal lists it: (alias as
\* written, official name); a representative part of the table: every entry
\* whose alias differs from its official name, and identity entries
SeedAliases == <<
    << <<"bei", "che">>, N_TaipeiMain >>,
    << <<TAI, "che">>, N_TaipeiMain >>,
    << <<"1", "0", "1">>, N_Taipei101 >>,
    << N_Ximen, N_Ximen >>,
    << N_Zhongshan, N_Zhongshan >>,
    << N_Daqiaotou, N_Daqiaotou >>,
    << N_Daqiaotou \o <<ZHAN>>, N_Daqiaotou >> >>

\* the dict the literal evaluates to after its first n entries: keys are
\* normalized, a repeated key keeps its first position and takes the last value
RECURSIVE AliasDict(_)
AliasDict(n) ==
    IF n = 0 THEN <<>>
    ELSE DictSet(AliasDict(n - 1),
                 normalize_name_for_map(SeedAliases[n][1]), SeedAliases[n][2])

station_aliases == AliasDict(Len(SeedAliases))

-----------------------------------------------------------------------------
(* What the TDX route provider returns: a list of routes, each with a       *)
(* RouteID and its ordered stations (StationID, StationName.Zh_tw,          *)
(* StationName.En; <<>> is an absent name).                                 *)
St(id, zh, en) == [StationID |-> id, Zh_tw |-> zh, En |-> en]
Route(rid, sts) == [RouteID |-> rid, Stations |-> sts]

\* A -X- B -X- C, D -Y- E
FeedScenario == <<
    Route(<<"X", "-", "1">>,
          <<St("X01", N_A, <<>>), St("X02", N_B, <<>>), St("X03", N_C, <<>>)>>),
    Route(<<"Y", "-", "1">>,
          <<St("Y01", N_D, <<>>), St("Y02", N_E, <<>>)>>) >>

\* the same lines with one transfer station C that has an ID on each line,
\* and a second route of line Y that runs over the pair B, C of line X
FeedAmbiguous == <<
    Route(<<"X", "-", "1">>,
          <<St("X01", N_A, <<>>), St("X02", N_B, <<>>), St("X03", N_C, <<>>)>>),
    Route(<<"Y", "-", "1">>,
          <<St("Y01", N_C \o <<ZHAN>>, <<>>), St("Y02", N_E, <<"E", "(", "Y", ")">>)>>),
    Route(<<"Y", "-", "2">>,
          <<St("X02", N_B, <<>>), St("X03", N_C, <<>>)>>) >>

\* a cut of the Taipei network: three lines, three transfer stations, and
\* a branch of the first line that leaves it at its middle station
FeedTaipei == <<
    Route(<<"R", "-", "1">>,
          <<St("R03", N_Taipei101, <<"T", "1">>),
            St("R10", N_TaipeiMain, <<"T", "M">>),
            St("R11", N_Zhongshan, <<>>)>>),
    Route(<<"R", "-", "3">>,
          <<St("R10", N_TaipeiMain, <<"T", "M">>),
            St("R22", N_Daqiaotou, <<>>)>>),
    Route(<<"B", "L", "-", "1">>,
          <<St("BL11", N_Ximen, <<>>), St("BL12", N_TaipeiMain, <<"T", "M">>)>>),
    Route(<<"G", "-", "1">>,
          <<St("G12", N_Ximen, <<>>), St("G14", N_Zhongshan \o <<ZHAN>>, <<>>)>>),
    Route(<<"1", "-", "G">>,
          <<St("G12", N_Ximen, <<>>), St("G14", N_Zhongshan, <<>>)>>),
    Route(<<"G", "-", "2">>, <<>>) >>

Feeds == <<FeedScenario, FeedAmbiguous, FeedTaipei>>

\* the first line without its branch and running on past its third station:
\* with the transfers, one can leave it at R10, ride two other lines, and
\* board it again at R11 towards the same terminus
FeedDetour == <<
    Route(<<"R", "-", "1">>,
          <<St("R03", N_Taipei101, <<"T", "1">>),
            St("R10", N_TaipeiMain, <<"T", "M">>),
            St("R11", N_Zhongshan, <<>>),
            St("R22", N_Daqiaotou, <<>>)>>),
    Route(<<"B", "L", "-", "1">>,
          <<St("BL11", N_Ximen, <<>>), St("BL12", N_TaipeiMain, <<"T", "M">>)>>),
    Route(<<"G", "-", "1">>,
          <<St("G12", N_Ximen, <<>>), St("G14", N_Zhongshan, <<>>)>>) >>

AllFeeds == Feeds \o <<FeedDetour>>

\* tdx_api.get_all_stations_of_route(): feed number f, or nothing (f = 0)
TdxRoutes(f) == IF f = 0 THEN <<>> ELSE AllFeeds[f]

\* mrt_transfer_info.json: a list of FromStationID/ToStationID records, or a
\* file that cannot be read
Tr(u, v) == [FromStationID |-> u, ToStationID |-> v]
TransferAll == <<Tr("X03", "Y01"), Tr("Y01", "X03"), Tr("BL12", "R10"),
                 Tr("R10", "BL12"), Tr("BL11", "G12"), Tr("G12", "BL11"),
                 Tr("G14", "R11"), Tr("R11", "G14")>>
\* one direction of each pair only, and a pair that a ride edge joins too
TransferPart == <<Tr("X03", "Y01"), Tr("BL12", "R10"), Tr("G14", "R11"),
                  Tr("X02", "X03")>>
TransferFiles == {[readable |-> TRUE, data |-> TransferAll],
                  [readable |-> TRUE, data |-> TransferPart],
                  [readable |-> TRUE, data |-> <<>>],
                  [readable |-> FALSE, data |-> <<>>]}

-----------------------------------------------------------------------------
(* StationManager                                                           *)

\* every station record of the feed, route after route
RECURSIVE FlattenStations(_, _)
FlattenStations(routes, r) ==
    IF r > Len(routes) THEN <<>>
    ELSE routes[r].Stations \o FlattenStations(routes, r + 1)

\* keys_to_add of one station: a Python set, iterated in hash order
\* (en_first is the order this process's string hashing gives)
KeysToAdd(station, en_first) ==
    LET nz == normalize_name_for_map(station.Zh_tw)
        ne == normalize_name_for_map(station.En)
    IN IF station.En = <<>> \/ ne = nz THEN <<nz>>
       ELSE IF en_first THEN <<ne, nz>> ELSE <<nz, ne>>

\* the loop over keys_to_add after n keys: station_map[key].add(id),
\* temp_official_name_map[key] = zh_name
RECURSIVE RegisterKeys(_, _, _, _)
RegisterKeys(acc, keys, n, station) ==
    IF n = 0 THEN acc
    ELSE LET prev == RegisterKeys(acc, keys, n - 1, station)
             key == keys[n]
         IN IF key = <<>> THEN prev
            ELSE [m |-> DictSet(prev.m, key,
                                DictGet(prev.m, key, {}) \cup {station.StationID}),
                  o |-> DictSet(prev.o, key, station.Zh_tw)]

\* the loop of update_station_data over the station records, after n records
RECURSIVE RegisterStations(_, _, _)
RegisterStations(stations, n, en_first) ==
    IF n = 0 THEN [m |-> <<>>, o |-> <<>>]
    ELSE LET prev == RegisterStations(stations, n - 1, en_first)
             st == stations[n]
             keys == KeysToAdd(st, en_first)
         IN IF prev = prev /\ (st.Zh_tw = <<>> \/ st.StationID = "") THEN prev
            ELSE RegisterKeys(prev, keys, Len(keys), st)

\* the JSON cache file
NoFile == [kind |-> "absent", data |-> <<>>]
CorruptFile == [kind |-> "corrupt", data |-> <<>>]

\* JSON text: a sequence of tokens, a string token holding its characters
\* (an ID is one character of the model)
Tok(t) == [t |-> t, s |-> <<>>]
StrTok(s) == [t |-> "str", s |-> s]

\* json.dump of a list of IDs, after n IDs
RECURSIVE DumpIds(_, _)
DumpIds(ids, n) ==
    IF n = 0 THEN <<>>
    ELSE DumpIds(ids, n - 1) \o (IF n > 1 THEN <<Tok(",")>> ELSE <<>>)
         \o <<StrTok(<<ids[n]>>)>>

\* json.dump of the members of a dict, after n members
RECURSIVE DumpMembers(_, _)
DumpMembers(d, n) ==
    IF n = 0 THEN <<>>
    ELSE DumpMembers(d, n - 1) \o (IF n > 1 THEN <<Tok(",")>> ELSE <<>>)
         \o <<StrTok(d[n][1]), Tok(":"), Tok("[")>>
         \o DumpIds(d[n][2], Len(d[n][2])) \o <<Tok("]")>>

json_dump(d) == <<Tok("{")>> \o DumpMembers(d, Len(d)) \o <<Tok("}")>>

\* json.load: the list that starts after the "[" before position i
RECURSIVE LoadIds(_, _, _)
LoadIds(text, i, ids) ==
    IF text[i].t = "]" THEN [value |-> ids, next |-> i + 1]
    ELSE IF text[i].t = "," THEN LoadIds(text, i + 1, ids)
    ELSE LoadIds(text, i + 1, Append(ids, text[i].s[1]))

\* json.load: the members of the dict from position i on
RECURSIVE LoadMembers(_, _, _)
LoadMembers(text, i, d) ==
    IF text[i].t = "}" THEN d
    ELSE IF text[i].t = "," THEN LoadMembers(text, i + 1, d)
    ELSE LET ids == LoadIds(text, i + 3, <<>>)
         IN LoadMembers(text, ids.next, DictSet(d, text[i].s, ids.value))

json_load(text) == LoadMembers(text, 2, <<>>)

\* a cache file whose lists were cut to their first ID
JsonFileFirstIds(d) ==
    [kind |-> "json",
     data |-> json_dump([i \in 1..Len(d) |-> <<d[i][1], SubSeq(d[i][2], 1, 1)>>])]

\* json.dump(station_map_list, f)
JsonFile(d) == [kind |-> "json", data |-> json_dump(d)]

\* StationManager.update_station_data: the returned station map, the
\* official_name_map it leaves and the file it leaves
update_station_data(routes, en_first, old_official, old_file) ==
    IF routes = <<>>
    THEN [station_map |-> <<>>, official_name_map |-> old_official,
          file |-> old_file]
    ELSE LET stations == FlattenStations(routes, 1)
             acc == RegisterStations(stations, Len(stations), en_first)
             station_map_list ==
                 [i \in 1..Len(acc.m) |-> <<acc.m[i][1], SortedIds(acc.m[i][2])>>]
         IN [station_map |-> station_map_list, official_name_map |-> acc.o,
             file |-> JsonFile(station_map_list)]

\* the inner loop of _build_official_name_map_from_loaded_data over the
\* aliases, after n aliases
RECURSIVE OfficialAliases(_, _, _)
OfficialAliases(o, n, normalized_name) ==
    IF n = 0 THEN o
    ELSE LET prev == OfficialAliases(o, n - 1, normalized_name) IN
         IF normalize_name_for_map(station_aliases[n][2]) = normalized_name
         THEN DictSet(prev, station_aliases[n][1], station_aliases[n][2])
         ELSE prev

\* the loop of _build_official_name_map_from_loaded_data, after n records
RECURSIVE OfficialFromLoaded(_, _)
OfficialFromLoaded(stations, n) ==
    IF n = 0 THEN <<>>
    ELSE LET prev == OfficialFromLoaded(stations, n - 1)
             zh == stations[n].Zh_tw
             normalized_name == normalize_name_for_map(zh)
         IN IF prev = prev /\ zh = <<>> THEN prev
            ELSE OfficialAliases(DictSet(prev, normalized_name, zh),
                                 Len(station_aliases), normalized_name)

\* StationManager._build_official_name_map_from_loaded_data
build_official_name_map_from_loaded_data(routes) ==
    IF routes = <<>> THEN <<>>
    ELSE LET stations == FlattenStations(routes, 1)
         IN OfficialFromLoaded(stations, Len(stations))

\* StationManager._load_or_create_station_data
load_or_create_station_data(file, routes, en_first) ==
    IF file.kind = "json" /\ json_load(file.data) # <<>>
    THEN [station_map |-> json_load(file.data),
          official_name_map |-> build_official_name_map_from_loaded_data(routes),
          file |-> file]
    ELSE update_station_data(routes, en_first, <<>>, file)

\* StationManager._add_aliases_to_station_map, after n aliases
RECURSIVE add_aliases_to_station_map(_, _)
add_aliases_to_station_map(sm, n) ==
    IF n = 0 THEN sm
    ELSE LET prev == add_aliases_to_station_map(sm, n - 1)
             alias_key == station_aliases[n][1]
             official_name_value == station_aliases[n][2]
             normalized_official_name_key ==
                 normalize_name_for_map(official_name_value)
         IN IF DictHas(prev.station_map, normalized_official_name_key)
            THEN [prev EXCEPT
                    !.station_map = DictSet(@, alias_key,
                        DictGet(prev.station_map, normalized_official_name_key, <<>>)),
                    !.official_name_map = DictSet(@, alias_key, official_name_value)]
            ELSE prev

\* StationManager.__init__
StationManagerInit(file, routes, en_first) ==
    add_aliases_to_station_map(load_or_create_station_data(file, routes, en_first),
                               Len(station_aliases))

\* StationManager.resolve_station_alias, returning the alias's official name
\* as the table writes it
resolve_station_alias_raw(name) ==
    IF name = <<>> THEN <<>>
    ELSE LET normalized_input == normalize_name_for_map(name) IN
         IF DictHas(station_aliases, normalized_input)
         THEN DictGet(station_aliases, normalized_input, <<>>)
         ELSE normalized_input

\* StationManager.resolve_station_alias
resolve_station_alias(name) ==
    IF name = <<>> THEN <<>>
    ELSE LET normalized_input == normalize_name_for_map(name) IN
         IF DictHas(station_aliases, normalized_input)
         THEN normalize_name_for_map(DictGet(station_aliases, normalized_input, <<>>))
         ELSE normalized_input

\* get_station_ids answering a miss with the first station of the map
get_station_ids_closest(station_map, station_name) ==
    IF station_name = <<>> THEN <<>>
    ELSE LET resolved_key == resolve_station_alias(station_name) IN
         IF resolved_key # <<>>
         THEN IF DictHas(station_map, resolved_key) \/ station_map = <<>>
              THEN DictGet(station_map, resolved_key, <<>>)
              ELSE station_map[1][2]
         ELSE <<>>

\* get_station_ids answering with the first key the resolved key starts
get_station_ids_prefix(station_map, station_name) ==
    LET resolved_key == resolve_station_alias(station_name)
        hits == {i \in 1..Len(station_map) :
                    /\ Len(station_map[i][1]) >= Len(resolved_key)
                    /\ SubSeq(station_map[i][1], 1, Len(resolved_key)) = resolved_key}
    IN IF hits = {} THEN <<>>
       ELSE station_map[CHOOSE i \in hits : \A j \in hits : i <= j][2]

\* StationManager.get_station_ids: the ID list, or <<>> for None
get_station_ids(station_map, station_name) ==
    IF station_name = <<>> THEN <<>>
    ELSE LET resolved_key == resolve_station_alias(station_name) IN
         IF resolved_key # <<>>
         THEN DictGet(station_map, resolved_key, <<>>)
         ELSE <<>>

-----------------------------------------------------------------------------
(* StationManager: directions asked at a station                            *)

\* the dict literal of get_terminal_stations_for as it is written: (station,
\* termini); a representative part: a terminus, and three transfer stations
\* with their full lists
CommonTerminals == <<
    << N_Xiangshan, <<N_Xiangshan>> >>,
    << N_TaipeiMain, <<N_Nangang, N_Dingpu, N_Xiangshan, N_Danshui, N_Xindian,
                       N_Huilong, N_Luzhou, N_Zoo>> >>,
    << N_Zhongshan, <<N_Nangang, N_Xiangshan, N_Danshui, N_Xindian>> >>,
    << N_Ximen, <<N_Nangang, N_Dingpu, N_Songshan, N_Xindian>> >> >>

NormalizeAll(names) == [i \in 1..Len(names) |-> normalize_name_for_map(names[i])]

\* the dict the literal evaluates to after its first n entries
RECURSIVE CommonTerminalsDict(_)
CommonTerminalsDict(n) ==
    IF n = 0 THEN <<>>
    ELSE DictSet(CommonTerminalsDict(n - 1),
                 normalize_name_for_map(CommonTerminals[n][1]),
                 NormalizeAll(CommonTerminals[n][2]))

common_terminals == CommonTerminalsDict(Len(CommonTerminals))

\* StationManager.get_terminal_stations_for
get_terminal_stations_for(station_name) ==
    DictGet(common_terminals, resolve_station_alias(station_name), <<>>)

\* the dict literal of resolve_direction as it is written: (query, station);
\* a representative part
DirectionAliases == <<
    << <<"bei", "che">>, N_TaipeiMain >>,
    << <<WANG, "bei", "che">>, N_TaipeiMain >>,
    << <<WANG>> \o N_Zhongshan, N_Songshan >>,
    << <<WANG>> \o N_Xiangshan, N_Xiangshan >>,
    << <<WANG>> \o N_Songshan, N_Songshan >>,
    << N_Xiangshan, N_Xiangshan >>,
    << N_TaipeiMain, N_TaipeiMain >>,
    << N_Songshan, N_Songshan >>,
    << N_Ximen, N_Ximen >> >>

\* the dict the literal evaluates to after its first n entries
RECURSIVE DirectionAliasDict(_)
DirectionAliasDict(n) ==
    IF n = 0 THEN <<>>
    ELSE DictSet(DirectionAliasDict(n - 1),
                 normalize_name_for_map(DirectionAliases[n][1]),
                 normalize_name_for_map(DirectionAliases[n][2]))

direction_aliases == DirectionAliasDict(Len(DirectionAliases))

\* re.match(r'^wang(.+)$', query).group(1), <<>> when there is no match: .
\* matches no newline, $ matches before a newline that ends the string
MatchWang(query) ==
    IF Len(query) < 2 \/ query[1] # WANG THEN <<>>
    ELSE LET rest == Tail(query)
             n == Len(rest)
         IN IF FirstIn(rest, 1, {NL}) = 0 THEN rest
            ELSE IF n >= 2 /\ FirstIn(rest, 1, {NL}) = n THEN SubSeq(rest, 1, n - 1)
            ELSE <<>>

ANY == <<"a", "n", "y">>

\* StationManager.resolve_direction
resolve_direction(station_map, station_name, direction_query) ==
    LET resolved_station_name == resolve_station_alias(station_name)
        normalized_direction_query == normalize_name_for_map(direction_query)
        potential_dest_name == MatchWang(normalized_direction_query)
        resolved_potential_dest == resolve_station_alias(potential_dest_name)
    IN IF DictHas(direction_aliases, normalized_direction_query)
       THEN <<normalize_name_for_map(
                 DictGet(direction_aliases, normalized_direction_query, <<>>))>>
       ELSE IF DictHas(station_map, normalized_direction_query)
       THEN <<normalized_direction_query>>
       ELSE IF direction_query = <<>> \/ normalized_direction_query = ANY
       THEN get_terminal_stations_for(resolved_station_name)
       ELSE IF potential_dest_name # <<>> /\ DictHas(station_map, resolved_potential_dest)
       THEN <<resolved_potential_dest>>
       ELSE <<>>

-----------------------------------------------------------------------------
(* StationIdResolver: station name to numeric SID                           *)

\* stations_sid_map.json: rows with SID, SCODE and SCNAME
SidRow(sid, scode, scname) == [SID |-> sid, SCODE |-> scode, SCNAME |-> scname]
StationsSidMap == <<SidRow(<<"0", "8", "1">>, "X01", N_A),
                    SidRow(<<"0", "5", "1">>, "BL12", N_TaipeiMain),
                    SidRow(<<"0", "8", "6">>, "BL11", N_Ximen),
                    SidRow(<<>>, "Y02", N_E)>>

\* StationIdResolver._normalize_name
resolver_normalize_name(name) ==
    LET lowered == Strip(Lower(name))
        unified == [i \in 1..Len(lowered) |->
                       IF lowered[i] = TAI_VAR THEN TAI ELSE lowered[i]]
        bare == Strip(StripBracketsDot(unified))
    IN IF bare # <<>> /\ bare[Len(bare)] = ZHAN
       THEN SubSeq(bare, 1, Len(bare) - 1)
       ELSE bare

\* the inner loop of the first pass of _load, after k IDs of one name
RECURSIVE OfficialOfIds(_, _, _, _)
OfficialOfIds(id_to_official_name, name, ids, k) ==
    IF k = 0 THEN id_to_official_name
    ELSE LET prev == OfficialOfIds(id_to_official_name, name, ids, k - 1) IN
         IF DictHas(prev, ids[k]) THEN prev ELSE DictSet(prev, ids[k], name)

\* the first pass of _load over station_info, after n names
RECURSIVE IdToOfficialName(_, _)
IdToOfficialName(station_info, n) ==
    IF n = 0 THEN <<>>
    ELSE LET prev == IdToOfficialName(station_info, n - 1)
             name == station_info[n][1]
             ids == station_info[n][2]
         IN IF prev = prev /\ ~HasAsciiAlnum(name)
            THEN OfficialOfIds(prev, name, ids, Len(ids))
            ELSE prev

\* the second pass of _load over station_info, after n names
RECURSIVE AliasToNorm(_, _, _)
AliasToNorm(station_info, id_to_official_name, n) ==
    IF n = 0 THEN <<>>
    ELSE LET prev == AliasToNorm(station_info, id_to_official_name, n - 1)
             alias == station_info[n][1]
             ids == station_info[n][2]
         IN IF prev = prev /\ ids # <<>> /\ DictHas(id_to_official_name, ids[1])
            THEN DictSet(prev, alias, DictGet(id_to_official_name, ids[1], <<>>))
            ELSE prev

\* the loop of _load over the rows of the SID map, after n rows
RECURSIVE NormToSid(_, _)
NormToSid(raw, n) ==
    IF n = 0 THEN <<>>
    ELSE LET prev == NormToSid(raw, n - 1)
             sid == raw[n].SID
             zh_name == raw[n].SCNAME
         IN IF prev = prev /\ sid # <<>> /\ zh_name # <<>>
            THEN DictSet(prev, resolver_normalize_name(zh_name), sid)
            ELSE prev

\* StationIdResolver._load: the two maps; loaded is FALSE when json.load of
\* the station file raises
StationIdResolverLoad(main_station_info, raw) ==
    IF main_station_info.kind = "corrupt"
    THEN [loaded |-> FALSE, norm_to_sid |-> <<>>, alias_to_norm |-> <<>>]
    ELSE LET station_info == IF main_station_info.kind = "json"
                             THEN json_load(main_station_info.data) ELSE <<>>
             id_to_official_name == IdToOfficialName(station_info, Len(station_info))
         IN [loaded |-> TRUE,
             norm_to_sid |-> NormToSid(raw, Len(raw)),
             alias_to_norm |-> AliasToNorm(station_info, id_to_official_name,
                                           Len(station_info))]

\* the value a function returned; <<>> is None
Returned(value) ==
    [kind |-> "returned", side |-> "", names |-> <<value>>, resolved |-> 0,
     searched |-> 0, start_station |-> <<>>, end_station |-> <<>>,
     path_details |-> <<>>, estimated_time_minutes |-> 0,
     shortest_path_ids |-> <<>>]

\* StationIdResolver.get_sid: the SID, or <<>> for None
get_sid(resolver, name) ==
    LET norm_input == resolver_normalize_name(name)
        official_name == DictGet(resolver.alias_to_norm, norm_input, norm_input)
    IN DictGet(resolver.norm_to_sid, official_name, <<>>)

-----------------------------------------------------------------------------
(* RoutingManager: construction                                             *)

RideWeight == 3
\* a transfer that costs what a ride costs
TransferWeightAsRide == RideWeight
TransferWeight == 5
\* float('inf'): above the weight of every simple path
Inf == TransferWeight * (Cardinality(AllIds) + 1)

\* name.replace(tai_var, tai) + zhan
DisplayName(name) ==
    [i \in 1..Len(name) |-> IF name[i] = TAI_VAR THEN TAI ELSE name[i]] \o <<ZHAN>>

\* the loop over the IDs of one name, after n IDs
RECURSIVE IdMapIds(_, _, _, _)
IdMapIds(id_to_name, ids, n, name) ==
    IF n = 0 THEN id_to_name
    ELSE LET prev == IdMapIds(id_to_name, ids, n - 1, name) IN
         IF DictHas(prev, ids[n]) THEN prev
         ELSE DictSet(prev, ids[n], DisplayName(name))

\* one pass of _load_station_id_map over station_map.items(), after n items
RECURSIVE IdMapPass(_, _, _, _)
IdMapPass(id_to_name, station_map, n, only_non_ascii) ==
    IF n = 0 THEN id_to_name
    ELSE LET prev == IdMapPass(id_to_name, station_map, n - 1, only_non_ascii)
             name == station_map[n][1]
             ids == station_map[n][2]
         IN IF prev = prev /\ only_non_ascii /\ HasAsciiAlnum(name) THEN prev
            ELSE IdMapIds(prev, ids, Len(ids), name)

\* RoutingManager._load_station_id_map
load_station_id_map(station_map) ==
    IdMapPass(IdMapPass(<<>>, station_map, Len(station_map), TRUE),
              station_map, Len(station_map), FALSE)

\* station_id_to_name.get(id, id)
NameOfId(id_to_name, id) == DictGet(id_to_name, id, <<id>>)

\* re.match(r"([A-Z]+)", route_id): the leading run of capital letters
RECURSIVE LeadingUpper(_, _)
LeadingUpper(route_id, i) ==
    IF i > Len(route_id) \/ route_id[i] \notin AsciiUpper THEN <<>>
    ELSE <<route_id[i]>> \o LeadingUpper(route_id, i + 1)

\* RoutingManager._get_line_name_and_color
UnknownColor == "unknown colour"
get_line_name_and_color(line_code) ==
    CASE line_code = <<"B", "L">> -> <<<<"ban", "nan", "xian">>, "blue">>
      [] line_code = <<"B", "R">> -> <<<<"wen", "hu", "xian">>, "brown">>
      [] line_code = <<"R">> -> <<<<"dan", "shui", "xin", "yi", "xian">>, "red">>
      [] line_code = <<"G">> -> <<<<"song", "shan", "xin", "dian", "xian">>, "green">>
      [] line_code = <<"O">> -> <<<<"zhong", "he", "xin", "lu", "xian">>, "orange">>
      [] line_code = <<"Y">> -> <<<<"huan", "zhuang", "xian">>, "yellow">>
      [] OTHER -> <<line_code, UnknownColor>>

\* an edge has no line_name attribute
NoLine == <<>>

\* nx.Graph.add_edge(u, v, **attr): one attribute dict shared by (u, v) and
\* (v, u); the attributes given overwrite, the others stay
AddEdgeDirected(edges, u, v, weight, type, line_name) ==
    LET old == IF <<u, v>> \in DOMAIN edges THEN edges[<<u, v>>]
               ELSE [weight |-> weight, type |-> type, line_name |-> NoLine]
        new == [weight |-> weight, type |-> type,
                line_name |-> IF line_name = NoLine THEN old.line_name ELSE line_name]
    IN (<<u, v>> :> new) @@ edges

AddEdge(edges, u, v, weight, type, line_name) ==
    LET old == IF <<u, v>> \in DOMAIN edges THEN edges[<<u, v>>]
               ELSE [weight |-> weight, type |-> type, line_name |-> NoLine]
        new == [weight |-> weight, type |-> type,
                line_name |-> IF line_name = NoLine THEN old.line_name ELSE line_name]
    IN (<<u, v>> :> new) @@ (<<v, u>> :> new) @@ edges

\* the first loop of _build_metro_graph: G.add_node for every station ID
GraphNodes(routes) ==
    LET sts == FlattenStations(routes, 1)
    IN {sts[i].StationID : i \in 1..Len(sts)} \ {""}

\* the loop over the consecutive pairs of one route, after n pairs
RECURSIVE RideEdges(_, _, _, _, _)
RideEdges(edges, nodes, stations, n, line_name) ==
    IF n = 0 THEN edges
    ELSE LET prev == RideEdges(edges, nodes, stations, n - 1, line_name)
             u_id == stations[n].StationID
             v_id == stations[n + 1].StationID
         IN IF u_id \in nodes /\ v_id \in nodes
            THEN AddEdge(prev, u_id, v_id, RideWeight, "ride", line_name)
            ELSE prev

\* the second loop of _build_metro_graph over the routes, after n routes:
\* line_details and the ride edges
RECURSIVE RouteLoop(_, _, _)
RouteLoop(nodes, routes, n) ==
    IF n = 0 THEN [line_details |-> <<>>, edges |-> <<>>]
    ELSE LET prev == RouteLoop(nodes, routes, n - 1)
             stations_on_this_route == routes[n].Stations
             line_code == LeadingUpper(routes[n].RouteID, 1)
             lc == get_line_name_and_color(line_code)
             line_name == lc[1]
         IN IF prev = prev /\ (stations_on_this_route = <<>> \/ line_code = <<>>)
            THEN prev
            ELSE [line_details |->
                    IF DictHas(prev.line_details, line_name) THEN prev.line_details
                    ELSE DictSet(prev.line_details, line_name,
                           [color |-> lc[2],
                            stations |-> [i \in 1..Len(stations_on_this_route) |->
                                            stations_on_this_route[i].StationID],
                            terminus |-> <<stations_on_this_route[1].StationID,
                                           stations_on_this_route[
                                             Len(stations_on_this_route)].StationID>>]),
                  edges |-> RideEdges(prev.edges, nodes, stations_on_this_route,
                                      Len(stations_on_this_route) - 1, line_name)]

\* the loop over transfer_data, after n records
RECURSIVE TransferEdges(_, _, _, _)
TransferEdges(edges, nodes, transfer_data, n) ==
    IF n = 0 THEN edges
    ELSE LET prev == TransferEdges(edges, nodes, transfer_data, n - 1)
             u == transfer_data[n].FromStationID
             v == transfer_data[n].ToStationID
         IN IF u \in nodes /\ v \in nodes
            THEN AddEdge(prev, u, v, TransferWeight, "transfer", NoLine)
            ELSE prev

EmptyGraph == [nodes |-> {}, edges |-> <<>>, line_details |-> <<>>]

\* RoutingManager._build_metro_graph (with the line_details it records)
build_metro_graph(routes, transfer_file) ==
    IF routes = <<>> THEN EmptyGraph
    ELSE LET nodes == GraphNodes(routes)
             acc == RouteLoop(nodes, routes, Len(routes))
         IN [nodes |-> nodes,
             edges |-> IF transfer_file.readable
                       THEN TransferEdges(acc.edges, nodes, transfer_file.data,
                                          Len(transfer_file.data))
                       ELSE acc.edges,
             line_details |-> acc.line_details]

\* a manager that always says it is ready
IsGraphReadyAlways(graph) == TRUE

\* is_graph_ready as __init__ computes it
IsGraphReady(graph) == Cardinality(graph.nodes) > 0

\* RoutingManager.__init__
RoutingManagerInit(station_map, routes, transfer_file) ==
    LET g == build_metro_graph(routes, transfer_file)
    IN [station_id_to_name |-> load_station_id_map(station_map),
        graph |-> g,
        is_graph_ready |-> IsGraphReady(g)]

-----------------------------------------------------------------------------
(* Path search (networkx)                                                   *)

HasEdge(graph, u, v) == <<u, v>> \in DOMAIN graph.edges
Neighbors(graph, u) == {v \in graph.nodes : HasEdge(graph, u, v)}
Last(path) == path[Len(path)]

\* every simple path that extends `path` to `target`
RECURSIVE SimplePaths(_, _, _)
SimplePaths(graph, path, target) ==
    IF Last(path) = target THEN {path}
    ELSE UNION {SimplePaths(graph, Append(path, v), target) :
                    v \in Neighbors(graph, Last(path)) \ SeqToSet(path)}

RECURSIVE PathWeight(_, _, _)
PathWeight(graph, path, i) ==
    IF i >= Len(path) THEN 0
    ELSE graph.edges[<<path[i], path[i + 1]>>].weight + PathWeight(graph, path, i + 1)

SetMin(S) == CHOOSE x \in S : \A y \in S : x <= y

\* nx.dijkstra_path_length(graph, s, e, weight='weight'); Inf stands for the
\* NetworkXNoPath exception
dijkstra_path_length(graph, s, e) ==
    LET ps == SimplePaths(graph, <<s>>, e)
    IN IF ps = {} THEN Inf ELSE SetMin({PathWeight(graph, p, 1) : p \in ps})

\* nx.dijkstra_path(graph, s, e, weight='weight'): a path of minimum weight;
\* which one among paths of equal weight is the library's choice
dijkstra_path(graph, s, e) ==
    LET ps == SimplePaths(graph, <<s>>, e)
    IN {p \in ps : PathWeight(graph, p, 1) = dijkstra_path_length(graph, s, e)}

\* nx.shortest_path_length(graph, source, target): the number of edges of a
\* shortest path; Inf stands for NetworkXNoPath and NodeNotFound
shortest_path_length(graph, source, target) ==
    IF source \notin graph.nodes \/ target \notin graph.nodes THEN Inf
    ELSE LET ps == SimplePaths(graph, <<source>>, target)
         IN IF ps = {} THEN Inf ELSE SetMin({Len(p) - 1 : p \in ps})

-----------------------------------------------------------------------------
(* Directions.  A directive string is the record of what its f-string       *)
(* holds: which sentence it is and the values formatted into it.            *)
NoName == <<>>
BoardDirective(name) ==
    [kind |-> "board", station |-> name, line |-> NoLine, color |-> "",
     towards |-> NoName]
TransferDirective(name, line_name, color) ==
    [kind |-> "transfer", station |-> name, line |-> line_name, color |-> color,
     towards |-> NoName]
RideDirective(line_name, color, towards) ==
    [kind |-> "ride", station |-> NoName, line |-> line_name, color |-> color,
     towards |-> towards]
AlightDirective(name) ==
    [kind |-> "alight", station |-> name, line |-> NoLine, color |-> "",
     towards |-> NoName]
InsufficientPath ==
    [kind |-> "insufficient", station |-> NoName, line |-> NoLine, color |-> "",
     towards |-> NoName]

\* list(dict.fromkeys(directions[:n])): the first occurrence of each string
RECURSIVE DictFromKeys(_, _)
DictFromKeys(directions, n) ==
    IF n = 0 THEN <<>>
    ELSE LET prev == DictFromKeys(directions, n - 1) IN
         IF directions[n] \in SeqToSet(prev) THEN prev
         ELSE Append(prev, directions[n])

\* the ride directive of a new line, never naming a direction
BoardingDirectiveNoDirection(rm, current_line, u_id, v_id) ==
    IF DictHas(rm.graph.line_details, current_line)
    THEN RideDirective(current_line,
                       DictGet(rm.graph.line_details, current_line, <<>>).color, NoName)
    ELSE RideDirective(current_line, "", NoName)

\* the ride directive of a new line: lines 147-161
BoardingDirective(rm, current_line, u_id, v_id) ==
    IF DictHas(rm.graph.line_details, current_line)
    THEN LET line_info == DictGet(rm.graph.line_details, current_line, <<>>)
             terminus1 == line_info.terminus[1]
             terminus2 == line_info.terminus[2]
             dist_u_t1 == shortest_path_length(rm.graph, u_id, terminus1)
             dist_v_t1 == shortest_path_length(rm.graph, v_id, terminus1)
         IN IF dist_u_t1 = Inf \/ dist_v_t1 = Inf
            THEN RideDirective(current_line, line_info.color, NoName)
            ELSE RideDirective(current_line, line_info.color,
                    NameOfId(rm.station_id_to_name,
                             IF dist_v_t1 < dist_u_t1 THEN terminus1 ELSE terminus2))
    ELSE RideDirective(current_line, "", NoName)

\* the loop of _generate_directions_from_ids over the edges of the path,
\* after n edges: current_line and directions
RECURSIVE DirectionLoop(_, _, _)
DirectionLoop(rm, path_ids, n) ==
    IF n = 0
    THEN [current_line |-> NoLine,
          directions |->
              <<BoardDirective(NameOfId(rm.station_id_to_name, path_ids[1]))>>]
    ELSE LET prev == DirectionLoop(rm, path_ids, n - 1)
             u_id == path_ids[n]
             v_id == path_ids[n + 1]
             edge_data == rm.graph.edges[<<u_id, v_id>>]
             line_name == edge_data.line_name
             with_transfer ==
                 IF prev.current_line # NoLine
                 THEN Append(prev.directions,
                        TransferDirective(
                          NameOfId(rm.station_id_to_name, u_id), line_name,
                          IF DictHas(rm.graph.line_details, line_name)
                          THEN DictGet(rm.graph.line_details, line_name, <<>>).color
                          ELSE UnknownColor))
                 ELSE prev.directions
         IN IF prev = prev /\ ~HasEdge(rm.graph, u_id, v_id) THEN prev
            ELSE IF edge_data.type = "ride" /\ line_name # prev.current_line
            THEN [current_line |-> line_name,
                  directions |->
                      Append(with_transfer,
                             BoardingDirective(rm, line_name, u_id, v_id))]
            ELSE prev

\* RoutingManager._generate_directions_from_ids without the final directive
generate_directions_no_arrival(rm, path_ids) ==
    IF Len(path_ids) < 2 THEN <<InsufficientPath>>
    ELSE LET directions == DirectionLoop(rm, path_ids, Len(path_ids) - 1).directions
         IN DictFromKeys(directions, Len(directions))

\* RoutingManager._generate_directions_from_ids
generate_directions_from_ids(rm, path_ids) ==
    IF Len(path_ids) < 2 THEN <<InsufficientPath>>
    ELSE LET directions ==
                 Append(DirectionLoop(rm, path_ids, Len(path_ids) - 1).directions,
                        AlightDirective(NameOfId(rm.station_id_to_name, Last(path_ids))))
         IN DictFromKeys(directions, Len(directions))

-----------------------------------------------------------------------------
(* RoutingManager.find_shortest_path                                        *)

\* what a call leaves: a result dict (kind "ok") or the exception raised.
\* names: the station names the exception message holds; side: which name a
\* StationNotFoundError message is about; resolved: how many get_station_ids
\* calls were made; searched: how many path searches were run
RaiseError(kind, side, names, resolved, searched) ==
    [kind |-> kind, side |-> side, names |-> names,
     start_station |-> NoName, end_station |-> NoName,
     path_details |-> <<>>, estimated_time_minutes |-> 0,
     shortest_path_ids |-> <<>>, resolved |-> resolved, searched |-> searched]

ResultDict(start, end, path_ids, details, time, resolved, searched) ==
    [kind |-> "ok", side |-> "", names |-> <<>>,
     start_station |-> start, end_station |-> end,
     path_details |-> details, estimated_time_minutes |-> time,
     shortest_path_ids |-> path_ids, resolved |-> resolved, searched |-> searched]

\* the nested loops over start_ids and end_ids (lines 180-190) after n
\* passes of the inner body, pass n being pair (s_id, e_id) number n in
\* iteration order.  paths is the set of values shortest_path_ids may hold
\* ({} when it is None)
RECURSIVE PairLoop(_, _, _, _)
PairLoop(graph, start_ids, end_ids, n) ==
    IF n = 0 THEN [min_weight |-> Inf, paths |-> {}, searched |-> 0]
    ELSE LET prev == PairLoop(graph, start_ids, end_ids, n - 1)
             s_id == start_ids[((n - 1) \div Len(end_ids)) + 1]
             e_id == end_ids[((n - 1) % Len(end_ids)) + 1]
             path_weight == dijkstra_path_length(graph, s_id, e_id)
         IN IF prev = prev /\ s_id \in graph.nodes /\ e_id \in graph.nodes
            THEN IF path_weight < prev.min_weight
                 THEN [min_weight |-> path_weight,
                       paths |-> dijkstra_path(graph, s_id, e_id),
                       searched |-> prev.searched + 1]
                 ELSE [prev EXCEPT !.searched = @ + 1]
            ELSE prev

\* lines 178-190 trying only the first ID of each name
SearchPairsFirstOnly(graph, start_ids, end_ids) ==
    PairLoop(graph, SubSeq(start_ids, 1, 1), SubSeq(end_ids, 1, 1), 1)

\* lines 178-190: min_weight and shortest_path_ids after the loops
SearchPairs(graph, start_ids, end_ids) ==
    PairLoop(graph, start_ids, end_ids, Len(start_ids) * Len(end_ids))

\* round(min_weight): the weights are integers
Round(w) == w

\* a path of one node taken for no path
FinishNeedsTwoNodes(rm, start, end, st) ==
    IF st.paths = {} \/ \A p \in st.paths : Len(p) < 2
    THEN {RaiseError("RouteNotFoundError", "", <<start, end>>, 2, st.searched)}
    ELSE {ResultDict(start, end, p, generate_directions_from_ids(rm, p),
                     Round(st.min_weight), 2, st.searched) : p \in st.paths}

\* lines 191-201 without the check of line 191
FinishUnchecked(rm, start, end, st) ==
    IF st.paths = {}
    THEN {ResultDict(start, end, <<>>, <<InsufficientPath>>, 0, 2, st.searched)}
    ELSE {ResultDict(start, end, p, generate_directions_from_ids(rm, p),
                     Round(st.min_weight), 2, st.searched) : p \in st.paths}

\* lines 191-201: the check that a path was found, and the result dict
Finish(rm, start, end, st) ==
    IF st.paths = {}
    THEN {RaiseError("RouteNotFoundError", "", <<start, end>>, 2, st.searched)}
    ELSE {ResultDict(start, end, p, generate_directions_from_ids(rm, p),
                     Round(st.min_weight), 2, st.searched) : p \in st.paths}

\* lines 176-177 with the two checks in the other order
CheckResolvedEndFirst(start, end, start_ids, end_ids) ==
    IF end_ids = <<>>
    THEN {RaiseError("StationNotFoundError", "end", <<end>>, 2, 0)}
    ELSE IF start_ids = <<>>
    THEN {RaiseError("StationNotFoundError", "start", <<start>>, 2, 0)}
    ELSE {}

\* lines 176-177: the exception raised for an unresolved name, if any
CheckResolved(start, end, start_ids, end_ids) ==
    IF start_ids = <<>>
    THEN {RaiseError("StationNotFoundError", "start", <<start>>, 2, 0)}
    ELSE IF end_ids = <<>>
    THEN {RaiseError("StationNotFoundError", "end", <<end>>, 2, 0)}
    ELSE {}

\* RoutingManager.find_shortest_path: the set of outcomes of one call
find_shortest_path(station_map, rm, start, end) ==
    IF ~rm.is_graph_ready
    THEN {RaiseError("RouteNotFoundError", "", <<>>, 0, 0)}
    ELSE LET start_ids == get_station_ids(station_map, start)
             end_ids == get_station_ids(station_map, end)
             unresolved == CheckResolved(start, end, start_ids, end_ids)
         IN IF unresolved # {} THEN unresolved
            ELSE Finish(rm, start, end, SearchPairs(rm.graph, start_ids, end_ids))

-----------------------------------------------------------------------------
(* The program: the environment (provider, files), the two managers, and    *)
(* the calls made on them.                                                  *)

MaxPathLen == 3

VARIABLES
    pc,                 \* "boot", "sm" (StationManager built), "rm" (both built)
    tdx,                \* the feed the route provider serves now, 0: nothing
    file,               \* mrt_station_info.json
    transfer_file,      \* mrt_transfer_info.json
    station_map,        \* StationManager.station_map
    official_name_map,  \* StationManager.official_name_map
    rm,                 \* the RoutingManager
    call,               \* the call made on the managers, if any
    result,             \* what the call returned or raised
    rt,                 \* the RealtimeMRTService, its threads and its files
    registry,           \* the class attributes of ServiceRegistry
    api                 \* the TDXApi and its _get_api_data call

vars == <<pc, tdx, file, transfer_file, station_map, official_name_map, rm,
          call, result, rt, registry, api>>

\* the station and routing managers and their calls
core == <<pc, tdx, file, transfer_file, station_map, official_name_map, rm,
          call, result>>
\* the other services
others == <<rt, registry, api>>

\* _cache_timestamp = None, and a DB file without a "timestamp"
NoTime == -1
\* realtime_train_db.json: not there, not JSON, or {"timestamp", "trains"}
NoDb == [kind |-> "absent", timestamp |-> NoTime, trains |-> <<>>]
CorruptDb == [kind |-> "corrupt", timestamp |-> NoTime, trains |-> <<>>]
JsonDb(timestamp, trains) ==
    [kind |-> "json", timestamp |-> timestamp, trains |-> trains]
\* no query made on the RealtimeMRTService yet
NoQuery == [op |-> "none", soap_calls |-> 0, refreshed |-> FALSE,
            returned |-> <<>>, cached |-> <<>>, timestamp |-> NoTime,
            db |-> NoDb, reply |-> <<>>, all_train_info |-> <<>>,
            station |-> <<>>, termini |-> <<>>]
\* before the services exist: RealtimeMRTService.__init__'s first
\* assignments, the DB file, the clock and the threads running
\* _periodic_update_cache ("check", "soap", "wait" or "dead" each)
NoRealtime ==
    [built |-> FALSE, db |-> NoDb, now |-> 0,
     cached_train_info |-> <<>>, cache_timestamp |-> NoTime,
     is_running |-> FALSE, stop_event |-> FALSE, update_thread |-> 0,
     threads |-> <<>>, caller |-> "idle", query |-> NoQuery]
\* ServiceRegistry._instance is None and _is_initialized is False; services
\* tells how far _initialize_services got on the instance ("none",
\* "partial" or "all"), last how the last ServiceRegistry() call ended
NoRegistry == [instance |-> FALSE, is_initialized |-> FALSE,
               services |-> "none", last |-> "none"]
\* the TDXApi before it is constructed: its access token, the call of
\* _get_api_data in progress (retry and delay as passed, the GET attempts
\* made and how each ended, the current delay, the sleeps made) and what
\* the call returned
NoApi == [phase |-> "none", access_token |-> FALSE, retry |-> 0,
          delay0 |-> 0, delay |-> 0, attempt |-> 0, history |-> <<>>,
          waits |-> <<>>, returned |-> "nothing"]

\* VectorSearchService.find_most_similar(query): None when the service is
\* not ready (ready = FALSE), or the best match and its score, in hundredths
NoMatch == [ready |-> FALSE, name |-> NoName, score |-> 0]
SimilarScores == {30, 55, 90}
find_most_similar ==
    {NoMatch} \cup {[ready |-> TRUE, name |-> N_TaipeiMain, score |-> sc] :
                       sc \in SimilarScores}

NoCall == [op |-> "none", start |-> NoName, end |-> NoName, path |-> <<>>,
           similar |-> NoMatch]
NoResult == RaiseError("none", "", <<>>, 0, 0)
NoRm == [station_id_to_name |-> <<>>, graph |-> EmptyGraph, is_graph_ready |-> FALSE]

\* the cache file a previous run of the program left behind
PreviousFiles ==
    {NoFile, CorruptFile}
    \cup {update_station_data(Feeds[f], FALSE, <<>>, NoFile).file : f \in 1..Len(Feeds)}

\* names callers ask about
N_Unknown == <<"H", "o", "g">>
RouteQueries ==
    {N_A, N_C, N_D, N_E, N_Ximen, N_Zhongshan \o <<ZHAN>>, <<"bei", "che">>,
     N_Unknown, <<>>}
NameQueries ==
    RouteQueries
    \cup {SeedAliases[i][1] : i \in 1..Len(SeedAliases)}
    \cup {SeedAliases[i][2] : i \in 1..Len(SeedAliases)}
    \cup {<<"a">>, <<"A", ZHAN>>, <<"A", "(", "X", ")">>, <<"A", "fw(", "X", "fw)", ZHAN>>,
          <<" ", "A">>, <<"A", " ">>, <<TAI_VAR, "bei", "che", ZHAN>>,
          <<"T", "M">>, <<"t", "1">>, <<ZHAN>>, <<"(", "A", ")">>}

\* node paths handed to the direction generator: IDs of the graph and one ID
\* that is not a node
PathIds == rm.graph.nodes \cup {IdOrder[Len(IdOrder)]}
RECURSIVE PathsUpTo(_)
PathsUpTo(n) ==
    IF n = 0 THEN {<<>>}
    ELSE LET shorter == PathsUpTo(n - 1)
         IN shorter \cup {Append(p, id) : p \in {q \in shorter : Len(q) = n - 1},
                                          id \in PathIds}

\* the node paths a path search can hand over
GraphPaths ==
    UNION {SimplePaths(rm.graph, <<s>>, e) : s \in rm.graph.nodes, e \in rm.graph.nodes}

Init ==
    /\ pc = "boot"
    /\ tdx \in 0..Len(Feeds)
    /\ file \in PreviousFiles
    /\ transfer_file \in TransferFiles
    /\ station_map = <<>>
    /\ official_name_map = <<>>
    /\ rm = NoRm
    /\ call = NoCall
    /\ result = NoResult
    /\ rt = NoRealtime
    /\ registry = NoRegistry
    /\ api = NoApi

\* StationManager(config.STATION_DATA_PATH)
ConstructStationManager ==
    /\ pc = "boot"
    /\ \E en_first \in BOOLEAN :
         LET sm == StationManagerInit(file, TdxRoutes(tdx), en_first) IN
         /\ station_map' = sm.station_map
         /\ official_name_map' = sm.official_name_map
         /\ file' = sm.file
    /\ pc' = "sm"
    /\ UNCHANGED <<others, tdx, transfer_file, rm, call, result>>

\* the route provider stops answering between the two constructions
ProviderOutage ==
    /\ pc = "sm"
    /\ tdx # 0
    /\ tdx' = 0
    /\ UNCHANGED <<others, pc, file, transfer_file, station_map, official_name_map, rm,
                   call, result>>

\* RoutingManager(station_manager)
ConstructRoutingManager ==
    /\ pc = "sm"
    /\ rm' = RoutingManagerInit(station_map, TdxRoutes(tdx), transfer_file)
    /\ pc' = "rm"
    /\ UNCHANGED <<others, tdx, file, transfer_file, station_map, official_name_map,
                   call, result>>

\* station_manager.update_station_data() on the live manager: the cache file
\* and self.official_name_map are replaced, the returned index is dropped
Rebuild ==
    /\ pc \in {"sm", "rm"}
    /\ call = NoCall
    /\ \E en_first \in BOOLEAN :
         LET built == update_station_data(TdxRoutes(tdx), en_first,
                                          official_name_map, file) IN
         /\ official_name_map' = built.official_name_map
         /\ file' = built.file
    /\ UNCHANGED <<others, pc, tdx, transfer_file, station_map, rm, call, result>>

\* routing_manager.find_shortest_path(start, end)
FindShortestPath ==
    /\ pc = "rm"
    /\ call = NoCall
    /\ \E start \in RouteQueries, end \in RouteQueries :
         /\ call' = [NoCall EXCEPT !.op = "find_shortest_path", !.start = start,
                                    !.end = end]
         /\ result' \in find_shortest_path(station_map, rm, start, end)
    /\ UNCHANGED <<others, pc, tdx, file, transfer_file, station_map, official_name_map, rm>>

\* station_manager.get_station_ids(name); the ID list is kept in
\* result.shortest_path_ids.  call.similar is what the vector search service
\* answers for the name (get_station_ids does not ask it)
GetStationIds ==
    /\ pc \in {"sm", "rm"}
    /\ call = NoCall
    /\ \E name \in NameQueries, similar \in find_most_similar :
         /\ call' = [NoCall EXCEPT !.op = "get_station_ids", !.start = name,
                                    !.similar = similar]
         /\ result' = [NoResult EXCEPT !.kind = "ids",
                          !.shortest_path_ids = get_station_ids(station_map, name)]
    /\ UNCHANGED <<others, pc, tdx, file, transfer_file, station_map, official_name_map, rm>>

\* StationIdResolver(STATIONS_SID_MAP_PATH, STATION_DATA_PATH).get_sid(name)
GetSid ==
    /\ pc \in {"sm", "rm"}
    /\ call = NoCall
    /\ \E name \in NameQueries :
         LET resolver == StationIdResolverLoad(file, StationsSidMap) IN
         /\ call' = [NoCall EXCEPT !.op = "get_sid", !.start = name]
         /\ result' = IF resolver.loaded
                      THEN Returned(get_sid(resolver, name))
                      ELSE RaiseError("JSONDecodeError", "", <<>>, 0, 0)
    /\ UNCHANGED <<others, pc, tdx, file, transfer_file, station_map, official_name_map, rm>>

\* the stations and the direction queries asked of resolve_direction
DirectionStations == {N_Zhongshan, N_TaipeiMain, <<"bei", "che">>, N_A}
DirectionQueries ==
    {<<>>, ANY, <<"bei", "che">>, <<WANG>> \o N_Zhongshan, N_Xiangshan,
     <<WANG>> \o N_Ximen, <<WANG, "A">>, N_Zhongshan \o <<ZHAN>>, <<WANG>>,
     N_Danshui}

\* station_manager.resolve_direction(station_name, direction_query)
ResolveDirection ==
    /\ pc \in {"sm", "rm"}
    /\ call = NoCall
    /\ \E station_name \in DirectionStations, direction_query \in DirectionQueries :
         /\ call' = [NoCall EXCEPT !.op = "resolve_direction",
                                    !.start = station_name, !.end = direction_query]
         /\ result' = [NoResult EXCEPT !.kind = "terminals",
                          !.names = resolve_direction(station_map, station_name,
                                                      direction_query)]
    /\ UNCHANGED <<others, pc, tdx, file, transfer_file, station_map, official_name_map, rm>>

\* routing_manager._generate_directions_from_ids(path_ids)
GenerateDirections ==
    /\ pc = "rm"
    /\ call = NoCall
    /\ \E path_ids \in PathsUpTo(MaxPathLen) \cup GraphPaths :
         /\ call' = [NoCall EXCEPT !.op = "generate_directions", !.path = path_ids]
         /\ result' = [NoResult EXCEPT !.kind = "directions",
                          !.path_details = generate_directions_from_ids(rm, path_ids)]
    /\ UNCHANGED <<others, pc, tdx, file, transfer_file, station_map, official_name_map, rm>>

Next ==
    \/ ConstructStationManager
    \/ ProviderOutage
    \/ ConstructRoutingManager
    \/ FindShortestPath
    \/ GetStationIds
    \/ GetSid
    \/ Rebuild
    \/ ResolveDirection

Spec == Init /\ [][Next]_vars

\* the same program, the calls being calls of the direction generator
NextDirections ==
    \/ ConstructStationManager
    \/ ProviderOutage
    \/ ConstructRoutingManager
    \/ GenerateDirections

SpecDirections == Init /\ [][NextDirections]_vars

-----------------------------------------------------------------------------
(* Properties of find_shortest_path.                                        *)

IsRouteCall == call.op = "find_shortest_path"
StartIds == get_station_ids(station_map, call.start)
EndIds == get_station_ids(station_map, call.end)
BothResolved == StartIds # <<>> /\ EndIds # <<>>

\* the ID pairs of a call whose two IDs are nodes of the graph
PairsInGraph ==
    {p \in SeqToSet(StartIds) \X SeqToSet(EndIds) :
        p[1] \in rm.graph.nodes /\ p[2] \in rm.graph.nodes}

\* the nodes reachable from the set S over the edges of the graph
RECURSIVE ReachableFrom(_, _)
ReachableFrom(graph, S) ==
    LET more == S \cup {v \in graph.nodes : \E u \in S : <<u, v>> \in DOMAIN graph.edges}
    IN IF more = S THEN S ELSE ReachableFrom(graph, more)

PairConnected(p) == p[2] \in ReachableFrom(rm.graph, {p[1]})

\* the weights of the minimum-weight paths of the connected pairs
PairWeights ==
    {dijkstra_path_length(rm.graph, p[1], p[2]) : p \in {q \in PairsInGraph : PairConnected(q)}}

\* C1: when the manager is ready and both names resolve, every pair of
\* resolved IDs that are both nodes of the graph is searched, the call
\* succeeds as soon as one pair is connected, and the returned
\* estimated_time_minutes is the minimum of the pairs' shortest weighted
\* path lengths
C1_MinOverAllPairs ==
    (IsRouteCall /\ rm.is_graph_ready /\ BothResolved) =>
        /\ result.searched = Cardinality(PairsInGraph)
        /\ IF PairWeights = {}
           THEN result.kind = "RouteNotFoundError"
           ELSE /\ result.kind = "ok"
                /\ result.estimated_time_minutes = SetMin(PairWeights)

\* C1: a name with two IDs, the other station reachable from the second
\* ID only, and the call succeeded
C1_Witness ==
    /\ IsRouteCall /\ rm.is_graph_ready
    /\ Len(StartIds) = 2 /\ Len(EndIds) = 1
    /\ StartIds[1] \in rm.graph.nodes /\ StartIds[2] \in rm.graph.nodes
    /\ ~PairConnected(<<StartIds[1], EndIds[1]>>)
    /\ PairConnected(<<StartIds[2], EndIds[1]>>)
    /\ result.kind = "ok"
    /\ result.shortest_path_ids[1] = StartIds[2]

\* is p a walk of the graph from one of the start IDs to one of the end IDs
FullPath(p) ==
    /\ Len(p) >= 1
    /\ p[1] \in SeqToSet(StartIds)
    /\ p[Len(p)] \in SeqToSet(EndIds)
    /\ \A i \in 1..(Len(p) - 1) : <<p[i], p[i + 1]>> \in DOMAIN rm.graph.edges
    /\ \A i \in 1..Len(p) : p[i] \in rm.graph.nodes

\* C2: every call either returns a result whose path is a full walk of the
\* graph from a start ID to an end ID, or raises StationNotFoundError or
\* RouteNotFoundError; when the two names resolve and no start ID is
\* connected to an end ID, it raises RouteNotFoundError carrying both names
C2_AllOrNothing ==
    IsRouteCall =>
        /\ result.kind \in {"ok", "StationNotFoundError", "RouteNotFoundError"}
        /\ result.kind = "ok" =>
              /\ FullPath(result.shortest_path_ids)
              /\ result.path_details # <<>>
              /\ result.start_station = call.start
              /\ result.end_station = call.end
        /\ result.kind # "ok" =>
              result.shortest_path_ids = <<>> /\ result.path_details = <<>>
        /\ (rm.is_graph_ready /\ BothResolved
               /\ \A p \in PairsInGraph : ~PairConnected(p)) =>
              /\ result.kind = "RouteNotFoundError"
              /\ result.names = <<call.start, call.end>>

\* C2: two components, a station of each, and the call raised
\* RouteNotFoundError
C2_Witness ==
    /\ IsRouteCall /\ rm.is_graph_ready /\ BothResolved
    /\ PairsInGraph # {}
    /\ \A p \in PairsInGraph : ~PairConnected(p)
    /\ result.kind = "RouteNotFoundError"
    /\ result.names = <<call.start, call.end>>

\* C3: when find_shortest_path(A, B) returns a result, every outcome of
\* find_shortest_path(B, A) is a result with the same
\* estimated_time_minutes
C3_SymmetricTime ==
    (IsRouteCall /\ result.kind = "ok") =>
        \A back \in find_shortest_path(station_map, rm, call.end, call.start) :
            /\ back.kind = "ok"
            /\ back.estimated_time_minutes = result.estimated_time_minutes

\* C3: a route between two different stations over a transfer
C3_Witness ==
    /\ IsRouteCall /\ result.kind = "ok"
    /\ call.start # call.end
    /\ result.estimated_time_minutes > TransferWeight
    /\ \E back \in find_shortest_path(station_map, rm, call.end, call.start) :
          back.shortest_path_ids # <<>>
          /\ back.shortest_path_ids[1] = result.shortest_path_ids[Len(result.shortest_path_ids)]

\* the name the directions show for the station registered under this name
Shown(name) == DisplayName(normalize_name_for_map(name))

\* the number of edges of the given type along the path p
RECURSIVE EdgeCount(_, _, _)
EdgeCount(p, type, i) ==
    IF i >= Len(p) THEN 0
    ELSE (IF rm.graph.edges[<<p[i], p[i + 1]>>].type = type THEN 1 ELSE 0)
         + EdgeCount(p, type, i + 1)

\* the graph A-ride(LineX)-B-ride(LineX)-C, C-transfer-D, D-ride(LineY)-E
\* with the stations' names
ScenarioEdge(u, v, type) ==
    /\ <<u, v>> \in DOMAIN rm.graph.edges
    /\ rm.graph.edges[<<u, v>>].type = type
    /\ rm.graph.edges[<<u, v>>] = rm.graph.edges[<<v, u>>]
ScenarioGraph ==
    /\ rm.is_graph_ready
    /\ rm.graph.nodes = {"X01", "X02", "X03", "Y01", "Y02"}
    /\ Cardinality(DOMAIN rm.graph.edges) = 8
    /\ ScenarioEdge("X01", "X02", "ride") /\ ScenarioEdge("X02", "X03", "ride")
    /\ ScenarioEdge("X03", "Y01", "transfer") /\ ScenarioEdge("Y01", "Y02", "ride")
    /\ rm.graph.edges[<<"X01", "X02">>].line_name = rm.graph.edges[<<"X02", "X03">>].line_name
    /\ rm.graph.edges[<<"Y01", "Y02">>].line_name # rm.graph.edges[<<"X01", "X02">>].line_name
    /\ get_station_ids(station_map, N_A) = <<"X01">>
    /\ get_station_ids(station_map, N_C) = <<"X03">>
    /\ get_station_ids(station_map, N_D) = <<"Y01">>
    /\ get_station_ids(station_map, N_E) = <<"Y02">>
    /\ NameOfId(rm.station_id_to_name, "X01") = Shown(N_A)
    /\ NameOfId(rm.station_id_to_name, "X03") = Shown(N_C)
    /\ NameOfId(rm.station_id_to_name, "Y01") = Shown(N_D)
    /\ NameOfId(rm.station_id_to_name, "Y02") = Shown(N_E)
ScenarioCall == ScenarioGraph /\ IsRouteCall /\ call.start = N_A /\ call.end = N_E

\* C4: the returned estimated_time_minutes is 3 for every ride edge plus 5
\* for every transfer edge of the returned path, and on the graph
\* A-ride-B-ride-C, C-transfer-D, D-ride-E the call (A, E) returns 14
C4_TimeIsPathWeight ==
    /\ (IsRouteCall /\ result.kind = "ok") =>
          result.estimated_time_minutes =
              3 * EdgeCount(result.shortest_path_ids, "ride", 1)
              + 5 * EdgeCount(result.shortest_path_ids, "transfer", 1)
    /\ ScenarioCall =>
          /\ result.kind = "ok"
          /\ result.shortest_path_ids = <<"X01", "X02", "X03", "Y01", "Y02">>
          /\ result.estimated_time_minutes = 14

\* C4: the call (A, E) on that graph returned
C4_Witness == ScenarioCall /\ result.kind = "ok" /\ result.estimated_time_minutes = 14

LineX == rm.graph.edges[<<"X01", "X02">>].line_name
LineY == rm.graph.edges[<<"Y01", "Y02">>].line_name

\* a ride directive of the line that states the station the segment ends at
RideEndingAt(d, line_name, name) ==
    d.kind = "ride" /\ d.line = line_name /\ d.station = name

-----------------------------------------------------------------------------
(* Properties of the direction generator, checked under SpecDirections.     *)

IsDirectionsCall == call.op = "generate_directions"

\* C6: for every node path of two or more nodes, the emitted path_details
\* is not empty, its first entry is the boarding directive naming the first
\* node's station, its last entry is the alighting directive naming the
\* last node's station, and no two consecutive entries are equal
C6_DirectionsWellFormed ==
    (IsDirectionsCall /\ Len(call.path) >= 2) =>
        LET d == result.path_details
            p == call.path
        IN /\ d # <<>>
           /\ d[1].kind = "board"
           /\ d[1].station = NameOfId(rm.station_id_to_name, p[1])
           /\ d[Len(d)].kind = "alight"
           /\ d[Len(d)].station = NameOfId(rm.station_id_to_name, p[Len(p)])
           /\ \A i \in 1..(Len(d) - 1) : d[i] # d[i + 1]

\* C6: a path over a transfer, whose directions name a change of line
C6_Witness ==
    /\ IsDirectionsCall /\ Len(call.path) >= 2
    /\ Len(result.path_details) >= 5
    /\ \E i \in 1..Len(result.path_details) : result.path_details[i].kind = "transfer"
    /\ result.path_details[Len(result.path_details)].kind = "alight"

-----------------------------------------------------------------------------
(* Properties of the checks find_shortest_path makes before it searches.    *)

\* what line 176 or 177 raises for this call
Unresolved == StartIds = <<>> \/ EndIds = <<>>
NamesFailedSide ==
    /\ result.kind = "StationNotFoundError"
    /\ result.searched = 0
    /\ IF StartIds = <<>>
       THEN result.side = "start" /\ result.names = <<call.start>>
       ELSE result.side = "end" /\ result.names = <<call.end>>

\* C7 as stated: whenever the start name or the end name resolves to no
\* station ID, the call raises StationNotFoundError naming the side and the
\* name, the start side when both fail, and runs no path search
C7_UnresolvedAlwaysStationNotFound ==
    (IsRouteCall /\ Unresolved) => NamesFailedSide

\* C7: when the routing manager is ready and the start name or the end
\* name resolves to no station ID, the call raises StationNotFoundError
\* naming the side and the name, the start side when both fail, and runs
\* no path search
C7_UnresolvedWhenReady ==
    (IsRouteCall /\ rm.is_graph_ready /\ Unresolved) => NamesFailedSide

\* C7: a ready manager, neither name resolves, the start side is reported
C7_Witness ==
    /\ IsRouteCall /\ rm.is_graph_ready
    /\ StartIds = <<>> /\ EndIds = <<>>
    /\ call.start # call.end
    /\ result.kind = "StationNotFoundError"
    /\ result.side = "start"

\* C8: the built manager is ready exactly when its graph has a node, and a
\* manager that is not ready answers every call with RouteNotFoundError,
\* no name having been resolved and no pair searched
C8_ReadyIffNodes ==
    /\ pc = "rm" => (rm.is_graph_ready <=> rm.graph.nodes # {})
    /\ (IsRouteCall /\ ~rm.is_graph_ready) =>
          /\ result.kind = "RouteNotFoundError"
          /\ result.resolved = 0
          /\ result.searched = 0

\* C8: a manager with an empty graph was asked about two names the
\* directory knows
C8_Witness ==
    /\ IsRouteCall /\ rm.graph.nodes = {} /\ ~rm.is_graph_ready
    /\ BothResolved
    /\ result.kind = "RouteNotFoundError"
    /\ result.resolved = 0

-----------------------------------------------------------------------------
(* Properties of the station directory.                                     *)

DirectoryBuilt == pc \in {"sm", "rm"}
IsIdsCall == call.op = "get_station_ids"

\* C9: for every entry (a, o) of the seed alias table, when the directory
\* holds o, get_station_ids(a) and get_station_ids(o) return the same,
\* non-empty, set of IDs
C9_AliasSameIds ==
    DirectoryBuilt =>
        \A n \in 1..Len(SeedAliases) :
            LET a == SeedAliases[n][1]
                o == SeedAliases[n][2]
            IN DictHas(station_map, normalize_name_for_map(o)) =>
                  /\ get_station_ids(station_map, a) # <<>>
                  /\ SeqToSet(get_station_ids(station_map, a))
                        = SeqToSet(get_station_ids(station_map, o))

\* C9: an alias was looked up and came back with the two IDs of its
\* official name
C9_Witness ==
    /\ IsIdsCall
    /\ \E n \in 1..Len(SeedAliases) :
          /\ call.start = SeedAliases[n][1]
          /\ SeedAliases[n][1] # SeedAliases[n][2]
          /\ Len(result.shortest_path_ids) = 2
          /\ result.shortest_path_ids = get_station_ids(station_map, SeedAliases[n][2])

\* the station records of the feeds
FeedStations ==
    UNION {SeqToSet(FlattenStations(Feeds[f], 1)) : f \in 1..Len(Feeds)}

\* C10: for every station registered from the feed under its official name
\* N, a query that normalize_station_name's normalization maps to the same
\* string as N makes get_station_ids return a list holding the station's ID
C10_NormalizedLookup ==
    IsIdsCall =>
        \A st \in FeedStations :
            (/\ st.StationID \in
                   SeqToSet(DictGet(station_map,
                                    normalize_name_for_map(st.Zh_tw), <<>>))
             /\ normalize_station_name_input(call.start)
                   = normalize_station_name_input(st.Zh_tw))
            => st.StationID \in SeqToSet(result.shortest_path_ids)

-----------------------------------------------------------------------------
(* The name normalizers as functions of any string: SpecNormalize applies   *)
(* them to every string of up to MaxNameLen characters.                     *)

MaxNameLen == 3
NameChars == {"A", ZHAN, "(", ")", " ", TAI_VAR}

RECURSIVE NamesUpTo(_)
NamesUpTo(n) ==
    IF n = 0 THEN {<<>>}
    ELSE LET shorter == NamesUpTo(n - 1)
         IN shorter \cup {Append(s, c) : s \in {t \in shorter : Len(t) = n - 1},
                                         c \in NameChars}

InitNormalize ==
    /\ Init
    /\ tdx = 0
    /\ file = NoFile
    /\ ~transfer_file.readable

\* _normalize_name_for_map(name) and normalize_station_name's normalization
\* of the same name, kept in result.names
NormalizeName ==
    /\ call = NoCall
    /\ \E name \in NamesUpTo(MaxNameLen) :
         /\ call' = [NoCall EXCEPT !.op = "normalize", !.start = name]
         /\ result' = [NoResult EXCEPT !.kind = "names",
                          !.names = <<normalize_name_for_map(name),
                                      normalize_station_name_input(name)>>]
    /\ UNCHANGED <<others, pc, tdx, file, transfer_file, station_map, official_name_map, rm>>

SpecNormalize == InitNormalize /\ [][NormalizeName]_vars

\* C11: normalizing a normalized name changes nothing, for the station
\* manager's normalizer and for normalize_station_name's
C11_Idempotent ==
    call.op = "normalize" =>
        /\ normalize_name_for_map(result.names[1]) = result.names[1]
        /\ normalize_station_name_input(result.names[2]) = result.names[2]

-----------------------------------------------------------------------------
(* Name resolution and the vector search service.                           *)

\* the two confidence thresholds of name resolution, in hundredths
LowThreshold == 40
HighThreshold == 70

\* the exact lookup of the call's name finds nothing
ExactMiss ==
    /\ IsIdsCall
    /\ normalize_name_for_map(call.start) # <<>>
    /\ DictGet(station_map, resolve_station_alias(call.start), <<>>) = <<>>

\* C12: when the exact lookup misses and the vector search answers with a
\* score strictly between the two thresholds, get_station_ids returns a
\* suggestion holding the matched name and the original query, not an ID
\* list and not None
C12_SuggestionBand ==
    (/\ ExactMiss
     /\ call.similar.ready
     /\ LowThreshold < call.similar.score
     /\ call.similar.score < HighThreshold)
    => /\ result.kind = "suggestion"
       /\ result.names = <<call.similar.name, call.start>>

\* C13: when the exact lookup misses and the vector search is not ready or
\* answers with a score under the low threshold, get_station_ids returns
\* None, not an ID list
C13_LowScoreIsNone ==
    (ExactMiss /\ (~call.similar.ready \/ call.similar.score < LowThreshold))
    => result.kind = "ids" /\ result.shortest_path_ids = <<>>

\* C13: an unknown name was asked of a directory that holds stations, the
\* vector search scoring its best match under the low threshold
C13_Witness ==
    /\ ExactMiss
    /\ station_map # <<>>
    /\ call.similar.ready /\ call.similar.score < LowThreshold
    /\ DictHas(station_map, normalize_name_for_map(call.similar.name))
    /\ result.kind = "ids" /\ result.shortest_path_ids = <<>>

-----------------------------------------------------------------------------
(* The station cache file.                                                  *)

\* two name indexes hold the same names with the same sets of IDs
SameIndex(a, b) ==
    /\ DictKeys(a) = DictKeys(b)
    /\ \A k \in DictKeys(a) :
          SeqToSet(DictGet(a, k, <<>>)) = SeqToSet(DictGet(b, k, <<>>))

\* C14: a cache file is the file some run of update_station_data wrote, and
\* loading it gives, for every normalized name, the set of IDs of the index
\* that run returned
C14_CacheRoundTrip ==
    file.kind = "json" =>
        \E f \in 1..Len(Feeds), en_first \in BOOLEAN :
            LET written == update_station_data(Feeds[f], en_first, <<>>, NoFile)
                loaded == load_or_create_station_data(file, TdxRoutes(tdx), en_first)
            IN /\ written.file = file
               /\ SameIndex(loaded.station_map, written.station_map)

\* C14: a directory was built by loading the cache file, which holds a name
\* with two IDs
C14_Witness ==
    /\ pc = "sm"
    /\ file.kind = "json"
    /\ tdx = 0
    /\ station_map # <<>>
    /\ LET loaded == json_load(file.data) IN
       /\ \A i \in 1..Len(loaded) : station_map[i] = loaded[i]
       /\ \E i \in 1..Len(loaded) : Len(loaded[i][2]) = 2

-----------------------------------------------------------------------------
(* Names that normalize to nothing.                                         *)

\* C15: a name that normalizes to the empty string makes get_station_ids
\* return None, whatever the directory holds
C15_EmptyNameIsNone ==
    (IsIdsCall /\ normalize_name_for_map(call.start) = <<>>)
    => result.kind = "ids" /\ result.shortest_path_ids = <<>>

\* C15: a name made of the station suffix or of a bracketed annotation only
\* was asked of a directory that holds stations
C15_Witness ==
    /\ IsIdsCall
    /\ call.start \in {<<ZHAN>>, <<"(", "A", ")">>}
    /\ normalize_name_for_map(call.start) = <<>>
    /\ station_map # <<>>
    /\ result.shortest_path_ids = <<>>

-----------------------------------------------------------------------------
(* A build that gets no data from the route provider.                       *)

\* the cache file cannot be loaded and the provider returns nothing
BuildWithoutData ==
    /\ pc = "boot"
    /\ tdx = 0
    /\ ~(file.kind = "json" /\ json_load(file.data) # <<>>)

\* C16: a build that gets no data from the route provider does not complete
\* (it raises DataLoadError) and leaves the directory empty, and every route
\* lookup on an empty directory raises StationNotFoundError
C16_NoDataFailsBuild ==
    /\ [][BuildWithoutData => (pc' = "boot" /\ station_map' = <<>>)]_vars
    /\ []((IsRouteCall /\ station_map = <<>>)
            => result.kind = "StationNotFoundError")

-----------------------------------------------------------------------------
(* Station name to SID.                                                     *)

IsSidCall == call.op = "get_sid"

\* the rows of the SID map that hold the station the name denotes
RowsOfName(name) ==
    {i \in 1..Len(StationsSidMap) :
        /\ StationsSidMap[i].SID # <<>>
        /\ resolver_normalize_name(StationsSidMap[i].SCNAME)
             = resolver_normalize_name(name)}

\* C17: converting a station name to its SID returns the SID of the station
\* for a known name and raises an exception for a name that is no station;
\* it returns nothing, and not None, for an unknown name
C17_SidOrException ==
    IsSidCall =>
        IF RowsOfName(call.start) # {}
        THEN /\ result.kind = "returned"
             /\ \E i \in RowsOfName(call.start) :
                   result.names = <<StationsSidMap[i].SID>>
        ELSE result.kind # "returned"

-----------------------------------------------------------------------------
(* Rebuilding the directory.                                                *)

\* the name index, the official-name map and the routing manager's
\* ID-to-name map are those of one build, from some cache file and provider
\* reply
FromOneBuild ==
    \E file0 \in PreviousFiles, f \in 0..Len(Feeds), en_first \in BOOLEAN :
        LET sm == StationManagerInit(file0, TdxRoutes(f), en_first) IN
        /\ station_map = sm.station_map
        /\ official_name_map = sm.official_name_map
        /\ pc = "rm" => rm.station_id_to_name = load_station_id_map(sm.station_map)

\* C18: a rebuild that gets data replaces the name index (aliases included),
\* the official-name map and the routing manager's ID-to-name map by those of
\* the new build, and at any time the three are from one build
C18_RebuildSwapsAll ==
    /\ [](pc \in {"sm", "rm"} => FromOneBuild)
    /\ [][(pc \in {"sm", "rm"} /\ file' # file)
            => \E en_first \in BOOLEAN :
                 LET sm == StationManagerInit(NoFile, TdxRoutes(tdx), en_first) IN
                 /\ file' = sm.file
                 /\ station_map' = sm.station_map
                 /\ official_name_map' = sm.official_name_map
                 /\ pc = "rm" =>
                      rm'.station_id_to_name = load_station_id_map(sm.station_map)]_vars

-----------------------------------------------------------------------------
(* The direction of a ride.                                                 *)

\* the call asked for the directions of one ride edge of a line whose
\* details are known
OneRideCall ==
    /\ IsDirectionsCall
    /\ Len(call.path) = 2
    /\ HasEdge(rm.graph, call.path[1], call.path[2])
    /\ rm.graph.edges[<<call.path[1], call.path[2]>>].type = "ride"
    /\ DictHas(rm.graph.line_details,
               rm.graph.edges[<<call.path[1], call.path[2]>>].line_name)

\* the termini of the line of the edge that are strictly closer, in edges of
\* the graph, from the edge's second node than from its first
CloserTermini ==
    LET ni == call.path[1]
        nj == call.path[2]
        line_info == DictGet(rm.graph.line_details,
                             rm.graph.edges[<<ni, nj>>].line_name, <<>>)
    IN {k \in 1..2 :
           shortest_path_length(rm.graph, nj, line_info.terminus[k])
             < shortest_path_length(rm.graph, ni, line_info.terminus[k])}

\* C19: the ride directive of a segment from ni to nj names a terminus of the
\* line that is strictly closer from nj than from ni, and names the line
\* without a direction when no terminus is strictly closer
C19_TowardsCloserTerminus ==
    OneRideCall =>
        LET ni == call.path[1]
            nj == call.path[2]
            line_info == DictGet(rm.graph.line_details,
                                 rm.graph.edges[<<ni, nj>>].line_name, <<>>)
            ride == result.path_details[2]
        IN /\ ride.kind = "ride"
           /\ IF CloserTermini = {}
              THEN ride.towards = NoName
              ELSE \E k \in CloserTermini :
                      ride.towards = NameOfId(rm.station_id_to_name,
                                              line_info.terminus[k])

-----------------------------------------------------------------------------
(* Transfers on the winning path.                                           *)

\* the edge from the i-th node of the path is a transfer edge
TransferEdgeAt(path_ids, i) ==
    /\ HasEdge(rm.graph, path_ids[i], path_ids[i + 1])
    /\ rm.graph.edges[<<path_ids[i], path_ids[i + 1]>>].type = "transfer"

\* the edge from the i-th node of the path is a ride edge
RideEdgeAt(path_ids, i) ==
    /\ HasEdge(rm.graph, path_ids[i], path_ids[i + 1])
    /\ rm.graph.edges[<<path_ids[i], path_ids[i + 1]>>].type = "ride"

\* the k-th directive tells to transfer at a station of the transfer edge
\* from the i-th node of the path
TransferDirectiveAt(details, k, path_ids, i) ==
    /\ details[k].kind = "transfer"
    /\ details[k].station \in {NameOfId(rm.station_id_to_name, path_ids[i]),
                               NameOfId(rm.station_id_to_name, path_ids[i + 1])}

\* C20: for every transfer edge of the winning path the directions hold a
\* transfer directive naming a station of the edge, and when a ride edge
\* follows the transfer edge, a later directive boards the line of that ride
C20_TransferDirectives ==
    (IsRouteCall /\ result.kind = "ok") =>
        LET path_ids == result.shortest_path_ids
            details == result.path_details
        IN \A i \in 1..(Len(path_ids) - 1) :
              TransferEdgeAt(path_ids, i) =>
                 \E k \in 1..Len(details) :
                    /\ TransferDirectiveAt(details, k, path_ids, i)
                    /\ (i + 2 <= Len(path_ids) /\ RideEdgeAt(path_ids, i + 1))
                         => \E m \in (k + 1)..Len(details) :
                               /\ details[m].kind = "ride"
                               /\ details[m].line =
                                    rm.graph.edges[<<path_ids[i + 1],
                                                     path_ids[i + 2]>>].line_name

-----------------------------------------------------------------------------
(* Transfer edges and ride edges of the built graph.                        *)

\* the ride edges of the graph under construction, before the transfer file
\* is read
EdgesBeforeTransfers ==
    RouteLoop(GraphNodes(TdxRoutes(tdx)), TdxRoutes(tdx), Len(TdxRoutes(tdx))).edges

\* the records of the transfer file whose two IDs are nodes of the graph
TransferPairs ==
    {i \in 1..Len(transfer_file.data) :
        /\ transfer_file.data[i].FromStationID \in rm.graph.nodes
        /\ transfer_file.data[i].ToStationID \in rm.graph.nodes}

Min(a, b) == IF a <= b THEN a ELSE b

\* C21: after the build, the connection of every transfer pair weighs the
\* minimum of the transfer cost and the weight of the edge that joined the
\* pair before, and a ride edge that joined the pair before is still a ride
\* edge with its weight and line name
C21_TransferKeepsMinimum ==
    (pc = "rm" /\ rm.is_graph_ready /\ transfer_file.readable) =>
        \A i \in TransferPairs :
            LET u == transfer_file.data[i].FromStationID
                v == transfer_file.data[i].ToStationID
                before == EdgesBeforeTransfers
            IN /\ HasEdge(rm.graph, u, v)
               /\ <<u, v>> \notin DOMAIN before
                    => rm.graph.edges[<<u, v>>].weight = TransferWeight
               /\ <<u, v>> \in DOMAIN before
                    => /\ rm.graph.edges[<<u, v>>].weight
                            = Min(TransferWeight, before[<<u, v>>].weight)
                       /\ before[<<u, v>>].type = "ride"
                            => rm.graph.edges[<<u, v>>] = before[<<u, v>>]

\* the line name _build_metro_graph gives the route, <<>> when the RouteID
\* does not start with a capital letter
LineNameOfRoute(route) ==
    LET line_code == LeadingUpper(route.RouteID, 1)
    IN IF line_code = <<>> THEN NoLine ELSE get_line_name_and_color(line_code)[1]

\* the transfer file that was read lists the pair, in one order or the other
ListedAsTransfer(u, v) ==
    /\ transfer_file.readable
    /\ \E i \in 1..Len(transfer_file.data) :
          {transfer_file.data[i].FromStationID, transfer_file.data[i].ToStationID}
            = {u, v}

\* C22: after the build, every consecutive station pair of every route that
\* has a line name, the pairs the transfer file lists aside, is joined by a
\* ride edge of the ride weight labelled with the line name of that route,
\* whatever routes were processed later
C22_RideEdgesKept ==
    (pc = "rm" /\ rm.is_graph_ready) =>
        \A r \in 1..Len(TdxRoutes(tdx)) :
            LET route == TdxRoutes(tdx)[r]
                stations == route.Stations
            IN LineNameOfRoute(route) # NoLine =>
                 \A i \in 1..(Len(stations) - 1) :
                    LET u_id == stations[i].StationID
                        v_id == stations[i + 1].StationID
                    IN (/\ u_id \in rm.graph.nodes /\ v_id \in rm.graph.nodes
                        /\ ~ListedAsTransfer(u_id, v_id)) =>
                          /\ HasEdge(rm.graph, u_id, v_id)
                          /\ rm.graph.edges[<<u_id, v_id>>]
                               = [weight |-> RideWeight, type |-> "ride",
                                  line_name |-> LineNameOfRoute(route)]

-----------------------------------------------------------------------------
(* The direction asked at a station.                                        *)

IsDirectionCall == call.op = "resolve_direction"

\* C23: resolve_direction returns only termini that get_terminal_stations_for
\* lists for the station, and at Zhongshan the direction "bei che" gives the
\* termini Songshan and Xiangshan, not the station that was asked
C23_OnlyTermini ==
    IsDirectionCall =>
        LET termini == get_terminal_stations_for(call.start) IN
        /\ \A i \in 1..Len(result.names) :
              \E j \in 1..Len(termini) : termini[j] = result.names[i]
        /\ (call.start = N_Zhongshan /\ call.end = <<"bei", "che">>)
              => result.names = <<N_Songshan, N_Xiangshan>>

-----------------------------------------------------------------------------
(* The countdown texts of the realtime trains.  The SOAP service sends       *)
(* "M:S" or a text holding "jin zhan" (arriving); get_realtime_track_info    *)
(* rewrites it, parse_countdown_to_seconds reads the rewritten text.         *)

FEN == "fen"
ZHONG == "zhong_clock"
MIAO == "miao"
JIN == "jin"
Arriving == <<"lie", "che", JIN, ZHAN>>
Arrived == <<"yi", "dao", ZHAN>>
Departed == <<"yi", "li", ZHAN>>
UnknownCountdown == <<"wei", "zhi">>
Digits == <<"0", "1", "2", "3", "4", "5", "6", "7", "8", "9">>

\* sub in s
HasSub(s, sub) ==
    \E i \in 0..(Len(s) - Len(sub)) :
        \A j \in 1..Len(sub) : s[i + j] = sub[j]

\* int(text) of a text of decimal digits; ValueError is -1
RECURSIVE IntOf(_)
IntOf(text) ==
    IF Len(text) = 0 \/ \E i \in 1..Len(text) : text[i] \notin AsciiDigit
    THEN -1
    ELSE IF Len(text) = 1
         THEN (CHOOSE d \in 0..9 : Digits[d + 1] = text[1])
         ELSE 10 * IntOf(SubSeq(text, 1, Len(text) - 1))
              + IntOf(<<text[Len(text)]>>)

\* f"{n}" of a natural number
RECURSIVE IntStr(_)
IntStr(n) ==
    IF n < 10 THEN <<Digits[n + 1]>>
    ELSE IntStr(n \div 10) \o <<Digits[(n % 10) + 1]>>

\* countdown.split(':')
RECURSIVE SplitColon(_, _)
SplitColon(text, part) ==
    IF Len(text) = 0 THEN <<part>>
    ELSE IF Head(text) = ":" THEN <<part>> \o SplitColon(Tail(text), <<>>)
    ELSE SplitColon(Tail(text), Append(part, Head(text)))

\* the countdown of one item of get_realtime_track_info's clean_data
CleanCountdown(countdown) ==
    IF HasSub(countdown, <<JIN, ZHAN>>) THEN Arriving
    ELSE LET parts == SplitColon(countdown, <<>>) IN
         IF Len(parts) = 2 /\ IntOf(parts[1]) >= 0 /\ IntOf(parts[2]) >= 0
         THEN IntStr(IntOf(parts[1])) \o <<" ", FEN, ZHONG, " ">>
              \o IntStr(IntOf(parts[2])) \o <<" ", MIAO>>
         ELSE UnknownCountdown

Train(station, destination, countdown) ==
    [StationName |-> station, DestinationName |-> destination,
     CountDown |-> countdown]

\* get_realtime_track_info's clean_data of the items of a reply
clean_data(items) ==
    [i \in 1..Len(items) |->
        Train(items[i].StationName, items[i].DestinationName,
              CleanCountdown(items[i].CountDown))]

\* the end of the run of characters of S that starts at position p of s
RECURSIVE RunEnd(_, _, _)
RunEnd(s, p, S) ==
    IF p <= Len(s) /\ s[p] \in S THEN RunEnd(s, p + 1, S) ELSE p

\* (?:(\d+)\s*unit)? tried at position p: the group and where it ends
MatchUnit(s, p, unit) ==
    LET d == RunEnd(s, p, AsciiDigit)
        w == RunEnd(s, d, Whitespace)
    IN  IF d > p /\ w <= Len(s) /\ s[w] = unit
        THEN [group |-> SubSeq(s, p, d - 1), end |-> w + 1]
        ELSE [group |-> <<>>, end |-> p]

\* float('inf') of parse_countdown_to_seconds
InfSeconds == 100000

\* parse_countdown_to_seconds(countdown_str), in seconds
parse_countdown_to_seconds(countdown_str) ==
    IF HasSub(countdown_str, <<JIN, ZHAN>>) \/ HasSub(countdown_str, Arrived)
    THEN 0
    ELSE IF HasSub(countdown_str, Departed) THEN InfSeconds
    ELSE LET min == MatchUnit(countdown_str, 1, FEN)
             gap == RunEnd(countdown_str, min.end, Whitespace)
             sec == MatchUnit(countdown_str, gap, MIAO)
             minutes == IF min.group = <<>> THEN 0 ELSE IntOf(min.group)
             seconds == IF sec.group = <<>> THEN 0 ELSE IntOf(sec.group)
         IN  IF min.group # <<>> \/ sec.group # <<>>
             THEN minutes * 60 + seconds
             ELSE IF IntOf(Strip(countdown_str)) >= 0
                  THEN IntOf(Strip(countdown_str))
                  ELSE InfSeconds

-----------------------------------------------------------------------------
(* RealtimeMRTService: the cache of the trains, its timestamp, the DB file   *)
(* and the updater threads.  The clock counts in the unit of                 *)
(* update_interval_seconds; the writes of the DB file succeed.               *)

\* update_interval_seconds the service is constructed with
UpdateInterval == 2
\* the clock stops here
MaxTime == 3
\* the threads start_update_thread may create in one behaviour
MaxThreads == 2

N_ZhongshanZhan == N_Zhongshan \o <<ZHAN>>
N_XiangshanZhan == N_Xiangshan \o <<ZHAN>>
N_SongshanZhan == N_Songshan \o <<ZHAN>>

\* what MetroSoapService's request can bring back: nothing (an error, None)
\* or the items of getTrackInfo's JSON array
NoReply == [ok |-> FALSE, items |-> <<>>]
Reply(items) == [ok |-> TRUE, items |-> items]
TrackReplies ==
    {NoReply,
     Reply(<<>>),
     Reply(<<Train(N_ZhongshanZhan, N_XiangshanZhan, <<"2", ":", "5", "0">>),
             Train(N_ZhongshanZhan, N_SongshanZhan, <<"0", ":", "3", "0">>),
             Train(N_ZhongshanZhan, N_XiangshanZhan, <<"2", ":", "1", "0">>),
             Train(N_TaipeiMain, N_XiangshanZhan, <<"1", ":", "0", "0">>),
             Train(N_ZhongshanZhan, N_XiangshanZhan, Arriving)>>),
     Reply(<<Train(N_ZhongshanZhan, N_XiangshanZhan, <<"0", "1", ":", "0", "5">>),
             Train(N_ZhongshanZhan, N_XiangshanZhan, <<>>),
             Train(N_ZhongshanZhan, N_SongshanZhan, <<"3", ":", "0", "0">>)>>)}

\* MetroSoapService.get_realtime_track_info(): None is the empty list here,
\* every caller tests the truth of what it returns
get_realtime_track_info(reply) ==
    IF reply.ok THEN clean_data(reply.items) ELSE <<>>

\* the DB files a previous run can have left
PreviousDbs ==
    {NoDb, CorruptDb, JsonDb(0, <<>>),
     JsonDb(0, <<Train(N_ZhongshanZhan, N_XiangshanZhan, Arriving)>>),
     JsonDb(NoTime, <<Train(N_ZhongshanZhan, N_SongshanZhan, Arriving)>>)}

\* update_cache_sync(): the service after it and what it returns
update_cache_sync(r, reply) ==
    LET all_track_info == get_realtime_track_info(reply) IN
    IF all_track_info # <<>>
    THEN [rt |-> [r EXCEPT !.cached_train_info = all_track_info,
                           !.cache_timestamp = r.now,
                           !.db = JsonDb(r.now, all_track_info)],
          ok |-> TRUE]
    ELSE [rt |-> r, ok |-> FALSE]

\* _load_local_db()
load_local_db(r) ==
    IF r.db.kind = "json"
    THEN [r EXCEPT !.cached_train_info = r.db.trains,
                   !.cache_timestamp =
                       IF r.db.timestamp # NoTime THEN r.db.timestamp ELSE @]
    ELSE r

\* the cache counted as valid at the age of the interval too
IsFreshInclusive(r) ==
    r.cache_timestamp # NoTime /\ r.now - r.cache_timestamp <= UpdateInterval

\* the cache is still valid:
\* _cache_timestamp and (now - _cache_timestamp) < update_interval_seconds
IsFresh(r) ==
    r.cache_timestamp # NoTime /\ r.now - r.cache_timestamp < UpdateInterval

\* _load_local_db_and_update_sync()
load_local_db_and_update_sync(r, reply) ==
    LET loaded == load_local_db(r) IN
    IF loaded.cached_train_info = <<>>
       \/ (loaded.cache_timestamp # NoTime
           /\ loaded.now - loaded.cache_timestamp > UpdateInterval)
    THEN update_cache_sync(loaded, reply).rt
    ELSE loaded

\* start_update_thread()
start_update_thread(r) ==
    IF ~r.is_running
    THEN [r EXCEPT !.stop_event = FALSE,
                   !.threads = Append(@, [pc |-> "check", wake |-> 0]),
                   !.update_thread = Len(r.threads) + 1,
                   !.is_running = TRUE]
    ELSE r

\* get_realtime_train_info(): the service after it, what it returns and the
\* calls of the SOAP service it made
get_realtime_train_info(r, reply) ==
    IF IsFresh(r)
    THEN [rt |-> r, returned |-> r.cached_train_info, soap_calls |-> 0,
          refreshed |-> FALSE]
    ELSE LET synced == update_cache_sync(r, reply)
             loaded == load_local_db(synced.rt)
         IN  IF synced.ok
             THEN [rt |-> synced.rt, returned |-> synced.rt.cached_train_info,
                   soap_calls |-> 1, refreshed |-> TRUE]
             ELSE [rt |-> loaded, returned |-> loaded.cached_train_info,
                   soap_calls |-> 1, refreshed |-> FALSE]

\* candidate_trains.sort(key=parse_countdown_to_seconds) after n trains: a
\* stable sort, a train goes behind those with a key not above its own
RECURSIVE SortByCountdown(_, _)
SortByCountdown(trains, n) ==
    IF n = 0 THEN <<>>
    ELSE LET prev == SortByCountdown(trains, n - 1)
             key == parse_countdown_to_seconds(trains[n].CountDown)
             ahead == Cardinality({i \in 1..Len(prev) :
                         parse_countdown_to_seconds(prev[i].CountDown) <= key})
         IN  IF prev = prev
             THEN SubSeq(prev, 1, ahead) \o <<trains[n]>>
                  \o SubSeq(prev, ahead + 1, Len(prev))
             ELSE <<>>

\* the loop of get_next_train_info over the first n trains
RECURSIVE CandidateTrains(_, _, _, _)
CandidateTrains(all_train_info, target_station_normalized, target_direction_normalized_list, n) ==
    IF n = 0 THEN <<>>
    ELSE LET prev == CandidateTrains(all_train_info, target_station_normalized,
                                     target_direction_normalized_list, n - 1)
             train == all_train_info[n]
         IN  IF prev = prev
                /\ parse_countdown_to_seconds(train.CountDown) # InfSeconds
                /\ normalize_name_for_map(train.DestinationName)
                      \in SeqToSet(target_direction_normalized_list)
                /\ normalize_name_for_map(train.StationName)
                      = target_station_normalized
             THEN Append(prev, train)
             ELSE prev

\* get_next_train_info(target_station_official_name,
\*                     target_direction_normalized_list) on all_train_info
get_next_train_info(all_train_info, target_station_official_name, target_direction_normalized_list) ==
    LET candidate_trains ==
            CandidateTrains(all_train_info,
                            normalize_name_for_map(target_station_official_name),
                            target_direction_normalized_list, Len(all_train_info))
    IN  SortByCountdown(candidate_trains, Len(candidate_trains))

\* the stations and the lists of termini asked for
TargetStations == {N_Zhongshan, N_TaipeiMain}
TargetDirections == {<<N_Xiangshan>>, <<N_Songshan, N_Xiangshan>>}

-----------------------------------------------------------------------------
(* The client's services: ServiceRegistry() builds the RealtimeMRTService    *)
(* and starts its updater; the clock ticks, the updater threads run, and     *)
(* one query on the service is observed in a behaviour.                      *)

InitClient ==
    /\ pc = "boot"
    /\ tdx = 0
    /\ file = NoFile
    /\ transfer_file \in TransferFiles
    /\ ~transfer_file.readable
    /\ station_map = <<>>
    /\ official_name_map = <<>>
    /\ rm = NoRm
    /\ call = NoCall
    /\ result = NoResult
    /\ rt \in {[NoRealtime EXCEPT !.db = db] : db \in PreviousDbs}
    /\ registry = NoRegistry
    /\ api = NoApi

\* ServiceRegistry(): __new__, with _initialize_services either completing
\* (the RealtimeMRTService is constructed last and its updater started) or
\* raising ServiceInitializationError out of an earlier constructor
ServiceRegistryNew ==
    /\ rt.query.op = "none"
    /\ rt.caller = "idle"
    /\ IF ~registry.instance
       THEN \/ \E reply \in TrackReplies :
                 /\ rt' = start_update_thread(
                             load_local_db_and_update_sync(
                                 [rt EXCEPT !.built = TRUE], reply))
                 /\ registry' = [instance |-> TRUE, is_initialized |-> TRUE,
                                 services |-> "all", last |-> "returned"]
            \/ /\ registry' = [instance |-> TRUE, is_initialized |-> FALSE,
                               services |-> "partial", last |-> "raised"]
               /\ UNCHANGED rt
       ELSE /\ registry' = [registry EXCEPT !.last = "returned"]
            /\ UNCHANGED rt
    /\ UNCHANGED <<core, api>>

\* time passes
Tick ==
    /\ rt.query.op = "none"
    /\ rt.now < MaxTime
    /\ rt' = [rt EXCEPT !.now = @ + 1]
    /\ UNCHANGED <<core, registry, api>>

GetRealtimeTrainInfo ==
    /\ rt.built
    /\ rt.caller = "idle"
    /\ rt.query.op = "none"
    /\ \E reply \in TrackReplies :
         LET got == get_realtime_train_info(rt, reply) IN
         rt' = [got.rt EXCEPT !.query =
                  [NoQuery EXCEPT !.op = "get_realtime_train_info",
                                  !.soap_calls = got.soap_calls,
                                  !.refreshed = got.refreshed,
                                  !.returned = got.returned,
                                  !.cached = rt.cached_train_info,
                                  !.timestamp = rt.cache_timestamp,
                                  !.db = rt.db,
                                  !.reply = IF got.soap_calls = 0 THEN <<>>
                                            ELSE get_realtime_track_info(reply)]]
    /\ UNCHANGED <<core, registry, api>>

GetNextTrainInfo ==
    /\ rt.built
    /\ rt.caller = "idle"
    /\ rt.query.op = "none"
    /\ \E reply \in TrackReplies, station \in TargetStations,
          termini \in TargetDirections :
         LET got == get_realtime_train_info(rt, reply) IN
         rt' = [got.rt EXCEPT !.query =
                  [NoQuery EXCEPT !.op = "get_next_train_info",
                                  !.soap_calls = got.soap_calls,
                                  !.all_train_info = got.returned,
                                  !.station = station,
                                  !.termini = termini,
                                  !.returned = get_next_train_info(
                                                  got.returned, station, termini)]]
    /\ UNCHANGED <<core, registry, api>>

StartUpdateThread ==
    /\ rt.built
    /\ rt.caller = "idle"
    /\ rt.query.op = "none"
    /\ ~rt.is_running
    /\ Len(rt.threads) < MaxThreads
    /\ rt' = start_update_thread(rt)
    /\ UNCHANGED <<core, registry, api>>

\* stop_update_thread() up to its join
StopUpdateThread ==
    /\ rt.built
    /\ rt.caller = "idle"
    /\ rt.query.op = "none"
    /\ rt.is_running
    /\ rt' = [rt EXCEPT !.stop_event = TRUE, !.caller = "joining"]
    /\ UNCHANGED <<core, registry, api>>

\* the join returns because the updater ended
JoinReturns ==
    /\ rt.caller = "joining"
    /\ rt.threads[rt.update_thread].pc = "dead"
    /\ rt' = [rt EXCEPT !.is_running = FALSE, !.caller = "idle"]
    /\ UNCHANGED <<core, registry, api>>

\* the join's timeout (update_interval_seconds + 5) passes while the updater
\* waits for the reply of its SOAP request (timeout=60)
JoinTimesOut ==
    /\ rt.caller = "joining"
    /\ rt.threads[rt.update_thread].pc = "soap"
    /\ rt' = [rt EXCEPT !.is_running = FALSE, !.caller = "idle"]
    /\ UNCHANGED <<core, registry, api>>

\* _periodic_update_cache: while not self._stop_event.is_set()
ThreadCheck ==
    /\ rt.query.op = "none"
    /\ \E i \in 1..Len(rt.threads) :
         /\ rt.threads[i].pc = "check"
         /\ rt' = [rt EXCEPT !.threads[i].pc =
                      IF rt.stop_event THEN "dead" ELSE "soap"]
    /\ UNCHANGED <<core, registry, api>>

\* _periodic_update_cache: the SOAP request ends, the cache and the DB file
\* are written when it brought trains, and the wait begins
ThreadSoapReturns ==
    /\ rt.query.op = "none"
    /\ \E i \in 1..Len(rt.threads), reply \in TrackReplies :
         /\ rt.threads[i].pc = "soap"
         /\ rt' = [update_cache_sync(rt, reply).rt EXCEPT
                      !.threads[i] = [pc |-> "wait",
                                      wake |-> rt.now + UpdateInterval]]
    /\ UNCHANGED <<core, registry, api>>

\* _periodic_update_cache: _stop_event.wait(update_interval_seconds) returns
ThreadWakes ==
    /\ rt.query.op = "none"
    /\ \E i \in 1..Len(rt.threads) :
         /\ rt.threads[i].pc = "wait"
         /\ rt.stop_event \/ rt.now >= rt.threads[i].wake
         /\ rt' = [rt EXCEPT !.threads[i] = [pc |-> "check", wake |-> 0]]
    /\ UNCHANGED <<core, registry, api>>

\* the queries on the service while the updater of the registry runs
NextClient ==
    \/ ServiceRegistryNew
    \/ Tick
    \/ GetRealtimeTrainInfo
    \/ GetNextTrainInfo
    \/ ThreadCheck
    \/ ThreadSoapReturns
    \/ ThreadWakes

SpecClient == InitClient /\ [][NextClient]_vars

\* the updater stopped and started again by the application
NextUpdater ==
    \/ ServiceRegistryNew
    \/ Tick
    \/ StartUpdateThread
    \/ StopUpdateThread
    \/ JoinReturns
    \/ JoinTimesOut
    \/ ThreadCheck
    \/ ThreadSoapReturns
    \/ ThreadWakes

SpecUpdater == InitClient /\ [][NextUpdater]_vars

-----------------------------------------------------------------------------
(* C24: get_realtime_train_info returns the cache without a SOAP call        *)
(* exactly when a cache timestamp exists and is younger than                 *)
(* update_interval_seconds; otherwise it makes one synchronous refresh and   *)
(* returns the refreshed data when that succeeds; when it fails it returns   *)
(* the trains of the local DB, and the empty list only when there are no     *)
(* trains in the reply, in the DB or in the cache.                           *)

IsInfoQuery == rt.query.op = "get_realtime_train_info"

\* the cache was valid when the query was made
WasFresh ==
    /\ rt.query.timestamp # NoTime
    /\ rt.now - rt.query.timestamp < UpdateInterval

C24_CacheOrOneRefresh ==
    IsInfoQuery =>
        /\ WasFresh <=> rt.query.soap_calls = 0
        /\ WasFresh => rt.query.returned = rt.query.cached
        /\ ~WasFresh => rt.query.soap_calls = 1
        /\ (~WasFresh /\ rt.query.reply # <<>>)
              => /\ rt.query.returned = rt.query.reply
                 /\ rt.query.refreshed
        /\ (~WasFresh /\ rt.query.reply = <<>> /\ rt.query.db.kind = "json")
              => rt.query.returned = rt.query.db.trains
        /\ (~WasFresh /\ rt.query.returned = <<>>)
              => /\ rt.query.reply = <<>>
                 /\ rt.query.cached = <<>>
                 /\ rt.query.db.trains = <<>>

\* a stale cache, a refresh that fails, and the trains of the DB returned
C24_Witness ==
    /\ IsInfoQuery
    /\ ~WasFresh
    /\ rt.query.timestamp # NoTime
    /\ rt.query.reply = <<>>
    /\ rt.query.returned # <<>>
    /\ rt.query.returned = rt.query.db.trains

-----------------------------------------------------------------------------
(* C25: the de-duplication of the directives removes adjacent repeats only:  *)
(* path_details is the list of the directives emitted along the path with    *)
(* every directive that repeats the one just before it left out, so the      *)
(* boarding directive of a run of ride edges is there even when an earlier   *)
(* run of the same line and direction emitted the same text.                 *)

\* the network of FeedDetour with every transfer of the file
InitDetour ==
    /\ pc = "boot"
    /\ tdx = Len(AllFeeds)
    /\ file \in {NoFile, CorruptFile}
    /\ transfer_file \in TransferFiles
    /\ station_map = <<>>
    /\ official_name_map = <<>>
    /\ rm = NoRm
    /\ call = NoCall
    /\ result = NoResult
    /\ rt = NoRealtime
    /\ registry = NoRegistry
    /\ api = NoApi

SpecDetour == InitDetour /\ [][NextDirections]_vars

\* the directives with those equal to their predecessor removed
RECURSIVE RemoveAdjacentRepeats(_, _)
RemoveAdjacentRepeats(directions, n) ==
    IF n = 0 THEN <<>>
    ELSE LET prev == RemoveAdjacentRepeats(directions, n - 1) IN
         IF n > 1 /\ directions[n] = directions[n - 1] THEN prev
         ELSE Append(prev, directions[n])

\* what the loop of _generate_directions_from_ids emitted for the call
EmittedDirectives ==
    Append(DirectionLoop(rm, call.path, Len(call.path) - 1).directions,
           AlightDirective(NameOfId(rm.station_id_to_name, Last(call.path))))

C25_OnlyAdjacentRepeatsRemoved ==
    (call.op = "generate_directions" /\ Len(call.path) >= 2)
        => result.path_details =
               RemoveAdjacentRepeats(EmittedDirectives, Len(EmittedDirectives))

-----------------------------------------------------------------------------
(* C26: whenever no start_update_thread or stop_update_thread call is in     *)
(* progress, at most one thread executes _periodic_update_cache and          *)
(* _is_running is true exactly when such a thread is alive, also after a     *)
(* join that timed out and a new start.                                      *)

AliveThreads == {i \in 1..Len(rt.threads) : rt.threads[i].pc # "dead"}

C26_OneUpdater ==
    (rt.built /\ rt.caller = "idle")
        => /\ Cardinality(AliveThreads) <= 1
           /\ rt.is_running <=> AliveThreads # {}

-----------------------------------------------------------------------------
(* C27: get_next_train_info returns the trains at the target station that    *)
(* head to one of the target termini and whose CountDown can be read, in     *)
(* the order of non-decreasing remaining seconds, "M fen zhong S miao"       *)
(* counting as M*60+S seconds and an arriving train as 0.                    *)

IsNextQuery == rt.query.op = "get_next_train_info"

\* the remaining seconds a cleaned CountDown stands for
RemainingSeconds(countdown) ==
    IF countdown = Arriving THEN 0
    ELSE IF \E m \in 0..99, sec \in 0..59 :
              countdown = IntStr(m) \o <<" ", FEN, ZHONG, " ">>
                          \o IntStr(sec) \o <<" ", MIAO>>
    THEN LET ms == CHOOSE ms \in (0..99) \X (0..59) :
                     countdown = IntStr(ms[1]) \o <<" ", FEN, ZHONG, " ">>
                                 \o IntStr(ms[2]) \o <<" ", MIAO>>
         IN ms[1] * 60 + ms[2]
    ELSE InfSeconds

\* the train is at the station, heads to one of the termini, can be read
IsWanted(train) ==
    /\ normalize_name_for_map(train.StationName)
          = normalize_name_for_map(rt.query.station)
    /\ normalize_name_for_map(train.DestinationName) \in SeqToSet(rt.query.termini)
    /\ RemainingSeconds(train.CountDown) # InfSeconds

C27_NextTrainsInOrder ==
    IsNextQuery =>
        /\ \A i \in 1..Len(rt.query.returned) : IsWanted(rt.query.returned[i])
        /\ \A i \in 1..Len(rt.query.all_train_info) :
              IsWanted(rt.query.all_train_info[i])
                 => \E j \in 1..Len(rt.query.returned) :
                       rt.query.returned[j] = rt.query.all_train_info[i]
        /\ \A i, j \in 1..Len(rt.query.returned) :
              i < j => RemainingSeconds(rt.query.returned[i].CountDown)
                          <= RemainingSeconds(rt.query.returned[j].CountDown)

-----------------------------------------------------------------------------
(* C28: every ServiceRegistry() call that returns normally returns the one   *)
(* instance with _initialize_services completed on it, also when an earlier  *)
(* call raised ServiceInitializationError.                                   *)

C28_ReturnedIsInitialized ==
    registry.last = "returned"
        => /\ registry.instance
           /\ registry.is_initialized
           /\ registry.services = "all"

-----------------------------------------------------------------------------
(* TDXApi._get_api_data(url, retry, delay): one GET per step of the loop.    *)
(* A response is "200" (a body that parses), "401" with the token refresh    *)
(* succeeding or failing, "429", another HTTP error, or a                    *)
(* RequestException raised by the request.                                   *)

\* the largest retry passed
MaxRetry == 3
\* the delays passed, in seconds
Delays == {1, 10}
Responses == {"200", "401", "401_no_token", "429", "http_error", "exception"}

\* the delay kept after a 429
SameDelay(delay) == delay

\* delay *= 2
NextDelay(delay) == delay * 2

\* the TDXApi after __init__, whose _get_access_token succeeded or failed
InitTdx ==
    /\ pc = "boot"
    /\ tdx = 0
    /\ file = NoFile
    /\ transfer_file \in TransferFiles
    /\ ~transfer_file.readable
    /\ station_map = <<>>
    /\ official_name_map = <<>>
    /\ rm = NoRm
    /\ call = NoCall
    /\ result = NoResult
    /\ rt = NoRealtime
    /\ registry = NoRegistry
    /\ api \in {[NoApi EXCEPT !.phase = "idle", !.access_token = token] :
                  token \in BOOLEAN}

\* the call and its test of the access token
GetApiData ==
    /\ api.phase = "idle"
    /\ \E retry \in 0..MaxRetry, delay \in Delays :
         api' = IF ~api.access_token
                THEN [api EXCEPT !.phase = "done", !.retry = retry,
                                 !.delay0 = delay, !.delay = delay,
                                 !.returned = "None"]
                ELSE [api EXCEPT !.phase = "loop", !.retry = retry,
                                 !.delay0 = delay, !.delay = delay]
    /\ UNCHANGED <<core, rt, registry>>

\* one pass of "for attempt in range(retry)"
Attempt ==
    /\ api.phase = "loop"
    /\ api.attempt < api.retry
    /\ \E response \in Responses :
         LET made == [api EXCEPT !.attempt = @ + 1,
                                 !.history = Append(@, response)]
         IN api' =
              CASE response = "200" ->
                     [made EXCEPT !.phase = "done", !.returned = "body"]
                [] response = "401" -> made
                [] response = "401_no_token" ->
                     [made EXCEPT !.phase = "done", !.access_token = FALSE,
                                  !.returned = "None"]
                [] response = "429" ->
                     [made EXCEPT !.waits = Append(@, api.delay),
                                  !.delay = NextDelay(api.delay)]
                [] OTHER ->
                     [made EXCEPT !.phase = "done", !.returned = "None"]
    /\ UNCHANGED <<core, rt, registry>>

\* the loop is over: return None
GiveUp ==
    /\ api.phase = "loop"
    /\ api.attempt = api.retry
    /\ api' = [api EXCEPT !.phase = "done", !.returned = "None"]
    /\ UNCHANGED <<core, rt, registry>>

NextTdx == GetApiData \/ Attempt \/ GiveUp

\* the interpreter runs the loop on
SpecTdx == InitTdx /\ [][NextTdx]_vars /\ WF_vars(NextTdx)

-----------------------------------------------------------------------------
(* C29: _get_api_data ends after at most retry GETs; it returns the body on  *)
(* the first 200, None at once on another HTTP error than 429, on a request  *)
(* exception or on a failed token refresh, and None after retry GETs that    *)
(* all ended in 429 or 401; the k-th 429 is followed by a sleep of           *)
(* delay * 2^(k-1) seconds and a 401 by none.                                *)

RECURSIVE Pow2(_)
Pow2(k) == IF k = 0 THEN 1 ELSE 2 * Pow2(k - 1)

\* the GETs that ended in 429
TooMany == {i \in 1..Len(api.history) : api.history[i] = "429"}
\* the GETs after which the loop goes on
GoesOn == {"401", "429"}

RetryLoopInvariant ==
    /\ api.attempt <= api.retry
    /\ Len(api.history) = api.attempt
    /\ \A i \in 1..(Len(api.history) - 1) : api.history[i] \in GoesOn
    /\ Len(api.waits) = Cardinality(TooMany)
    /\ \A k \in 1..Len(api.waits) : api.waits[k] = api.delay0 * Pow2(k - 1)
    /\ api.phase = "done" =>
          /\ api.returned = "body" <=>
                (api.history # <<>> /\ Last(api.history) = "200")
          /\ api.returned # "body" => api.returned = "None"
          /\ (api.history # <<>> /\ Last(api.history) \in GoesOn)
                => api.attempt = api.retry
    /\ (api.phase = "loop" /\ api.history # <<>>) => Last(api.history) \in GoesOn

C29_RetryLoopEnds ==
    /\ []RetryLoopInvariant
    /\ (api.phase = "loop") ~> (api.phase = "done")

\* three GETs, two of them answered 429 and one 401, and None returned
C29_Witness ==
    /\ api.phase = "done"
    /\ api.returned = "None"
    /\ api.attempt = 3
    /\ Cardinality(TooMany) = 2
    /\ api.history[2] = "401"
    /\ api.waits = <<api.delay0, 2 * api.delay0>>

-----------------------------------------------------------------------------
(* C30: when the start and the end name resolve to a common station ID that  *)
(* is a node of the graph, find_shortest_path raises nothing and returns the *)
(* one-node path: estimated_time_minutes is 0 and path_details is the single *)
(* "insufficient path information" placeholder.                              *)

\* the IDs of both names that are nodes of the graph
CommonIds ==
    SeqToSet(get_station_ids(station_map, call.start))
    \cap SeqToSet(get_station_ids(station_map, call.end))
    \cap rm.graph.nodes

C30_SameStationIsZero ==
    (call.op = "find_shortest_path" /\ rm.is_graph_ready /\ CommonIds # {})
        => /\ result.kind = "ok"
           /\ result.estimated_time_minutes = 0
           /\ result.path_details = <<InsufficientPath>>
           /\ Len(result.shortest_path_ids) = 1
           /\ result.shortest_path_ids[1] \in CommonIds

\* from a station with two IDs to itself, and the result returned
C30_Witness ==
    /\ call.op = "find_shortest_path"
    /\ rm.is_graph_ready
    /\ Cardinality(CommonIds) = 2
    /\ result.kind = "ok"
    /\ result.path_details = <<InsufficientPath>>

====
